---- MODULE Spec2Model ----
(***************************************************************************)
(* A model of the DeepReviewer review-job runtime: the job controller      *)
(* (deepreview/runner.py), the persistent job record and event log         *)
(* (deepreview/state.py, deepreview/storage.py) and the nine agent tools   *)
(* with the runtime context they share (deepreview/tools/review_tools.py). *)
(*                                                                         *)
(* Text is modelled as a sequence of lines; a line is a record             *)
(* [h |-> whether the line matches the section-heading pattern,            *)
(*  t |-> the heading text, or the trimmed text of a plain line].          *)
(* Queries are sequences of one-character strings.                         *)
(***************************************************************************)
EXTENDS Integers, Sequences, FiniteSets, TLC

\* ------------------------------------------------------------------ bounds

\* Tool calls the agent may issue over the life of one job (the runs' turn budget).
MaxToolCalls == 3

\* Tool calls explored over a whole job (all its runs together).
MaxJobToolCalls == 1

\* ------------------------------------------------------- generic helpers

None == "None"

\* A file of the job directory that has not been written (Path.exists() is
\* false): a value apart from every content a written file can hold, the
\* empty one included.
NoFile == <<[missing |-> TRUE]>>

Max(a, b) == IF a >= b THEN a ELSE b

Min(a, b) == IF a <= b THEN a ELSE b

Range(s) == {s[i] : i \in DOMAIN s}

RECURSIVE SelectIds(_, _)
\* The elements of sequence s that belong to set S, in the order of s.
SelectIds(s, S) ==
    IF s = <<>> THEN <<>>
    ELSE IF Head(s) \in S THEN <<Head(s)>> \o SelectIds(Tail(s), S)
    ELSE SelectIds(Tail(s), S)

RECURSIVE CountOf(_, _)
\* Number of entries of the sequence s equal to x.
CountOf(s, x) ==
    IF s = <<>> THEN 0
    ELSE (IF Head(s) = x THEN 1 ELSE 0) + CountOf(Tail(s), x)

\* ---------------------------------------------------------------- text

TextLine(t) == [h |-> FALSE, t |-> t]

HeadingLine(t) == [h |-> TRUE, t |-> t]

IsBlank(line) == ~line.h /\ line.t = ""

RECURSIVE LStrip(_)
LStrip(text) ==
    IF text = <<>> THEN <<>>
    ELSE IF IsBlank(Head(text)) THEN LStrip(Tail(text))
    ELSE text

RECURSIVE RStrip(_)
RStrip(text) ==
    IF text = <<>> THEN <<>>
    ELSE IF IsBlank(text[Len(text)]) THEN RStrip(SubSeq(text, 1, Len(text) - 1))
    ELSE text

\* str.strip() on a multi-line text: leading and trailing blank lines go.
Strip(text) == RStrip(LStrip(text))

\* Tokens that stand for text holding CJK characters (U+4E00..U+9FFF).
ChineseTokens == {"zh"}

\* ------------------------------------------------- queries (signatures)

Lower(c) == IF c = "A" THEN "a" ELSE IF c = "B" THEN "b" ELSE c

RECURSIVE Words(_, _)
\* str.split(): the maximal runs of non-blank characters of q; cur is the run being read.
Words(q, cur) ==
    IF q = <<>> THEN (IF cur = <<>> THEN <<>> ELSE <<cur>>)
    ELSE IF Head(q) = " "
         THEN (IF cur = <<>> THEN <<>> ELSE <<cur>>) \o Words(Tail(q), <<>>)
         ELSE Words(Tail(q), Append(cur, Lower(Head(q))))

RECURSIVE JoinWords(_)
JoinWords(ws) ==
    IF ws = <<>> THEN <<>>
    ELSE IF Len(ws) = 1 THEN ws[1]
    ELSE ws[1] \o <<" ">> \o JoinWords(Tail(ws))

\* ' '.join(str(text or '').strip().lower().split())
normalize_signature(text) == JoinWords(Words(text, <<>>))

\* ------------------------------------------------ required report sections

\* _REQUIRED_FINAL_REPORT_SECTIONS: (section id, title, aliases), in canonical order.
REQUIRED_FINAL_REPORT_SECTIONS ==
    << [id |-> "summary", title |-> "Summary", aliases |-> <<"summary">>],
       [id |-> "strengths", title |-> "Strengths", aliases |-> <<"strengths">>],
       [id |-> "weaknesses", title |-> "Weaknesses", aliases |-> <<"weaknesses">>],
       [id |-> "key_issues", title |-> "Key Issues", aliases |-> <<"key issues", "issues">>],
       [id |-> "actionable_suggestions", title |-> "Actionable Suggestions",
        aliases |-> <<"actionable suggestions", "suggestions">>],
       [id |-> "storyline_options_writing_outlines",
        title |-> "Storyline Options + Writing Outlines",
        aliases |-> <<"storyline options + writing outlines", "storyline options",
                      "writing outlines", "storylines">>],
       [id |-> "priority_revision_plan", title |-> "Priority Revision Plan",
        aliases |-> <<"priority revision plan", "revision plan">>],
       [id |-> "experiment_inventory_research_experiment_plan",
        title |-> "Experiment Inventory & Research Experiment Plan",
        aliases |-> <<"experiment inventory & research experiment plan",
                      "experiment inventory", "research experiment plan">>],
       [id |-> "novelty_verification_related_work_matrix",
        title |-> "Novelty Verification & Related-Work Matrix",
        aliases |-> <<"novelty verification & related-work matrix",
                      "novelty verification & related work matrix",
                      "novelty verification", "related-work matrix",
                      "related work matrix">>],
       [id |-> "references", title |-> "References", aliases |-> <<"references", "reference">>],
       [id |-> "scores", title |-> "Scores", aliases |-> <<"scores", "score", "final score">>] >>

\* The result of _normalize_final_report_section_token on each token the model uses,
\* as the sequence of the words of the normalized token (lowercased; '&' -> 'and';
\* '+', '/', '\', '_', '-' -> blank; other non-alphanumerics dropped; blanks collapsed).
NormalizedToken ==
    [t \in {"summary", "Summary"} |-> <<"summary">>]
    @@ [t \in {"strengths", "Strengths"} |-> <<"strengths">>]
    @@ [t \in {"weaknesses", "Weaknesses"} |-> <<"weaknesses">>]
    @@ [t \in {"key_issues", "Key Issues", "key issues"} |-> <<"key", "issues">>]
    @@ [t \in {"issues"} |-> <<"issues">>]
    @@ [t \in {"actionable_suggestions", "Actionable Suggestions", "actionable suggestions"}
          |-> <<"actionable", "suggestions">>]
    @@ [t \in {"suggestions"} |-> <<"suggestions">>]
    @@ [t \in {"storyline_options_writing_outlines", "Storyline Options + Writing Outlines",
               "storyline options + writing outlines"}
          |-> <<"storyline", "options", "writing", "outlines">>]
    @@ [t \in {"storyline options"} |-> <<"storyline", "options">>]
    @@ [t \in {"writing outlines"} |-> <<"writing", "outlines">>]
    @@ [t \in {"storylines"} |-> <<"storylines">>]
    @@ [t \in {"priority_revision_plan", "Priority Revision Plan", "priority revision plan"}
          |-> <<"priority", "revision", "plan">>]
    @@ [t \in {"revision plan"} |-> <<"revision", "plan">>]
    @@ [t \in {"experiment_inventory_research_experiment_plan"}
          |-> <<"experiment", "inventory", "research", "experiment", "plan">>]
    @@ [t \in {"Experiment Inventory & Research Experiment Plan",
               "experiment inventory & research experiment plan"}
          |-> <<"experiment", "inventory", "and", "research", "experiment", "plan">>]
    @@ [t \in {"experiment inventory"} |-> <<"experiment", "inventory">>]
    @@ [t \in {"research experiment plan"} |-> <<"research", "experiment", "plan">>]
    @@ [t \in {"novelty_verification_related_work_matrix"}
          |-> <<"novelty", "verification", "related", "work", "matrix">>]
    @@ [t \in {"Novelty Verification & Related-Work Matrix",
               "novelty verification & related-work matrix",
               "novelty verification & related work matrix"}
          |-> <<"novelty", "verification", "and", "related", "work", "matrix">>]
    @@ [t \in {"novelty verification"} |-> <<"novelty", "verification">>]
    @@ [t \in {"related-work matrix", "related work matrix"} |-> <<"related", "work", "matrix">>]
    @@ [t \in {"references", "References"} |-> <<"references">>]
    @@ [t \in {"reference"} |-> <<"reference">>]
    @@ [t \in {"scores", "Scores"} |-> <<"scores">>]
    @@ [t \in {"score"} |-> <<"score">>]
    @@ [t \in {"final score"} |-> <<"final", "score">>]
    @@ [t \in {"bogus", "Introduction"} |-> <<t>>]
    @@ [t \in {"Strengths and Weaknesses"} |-> <<"strengths", "and", "weaknesses">>]

\* _normalize_final_report_section_token: '' for None and for the empty string.
normalize_final_report_section_token(value) ==
    IF value \in DOMAIN NormalizedToken THEN NormalizedToken[value] ELSE <<>>

\* _required_final_report_section_order
required_final_report_section_order ==
    [i \in DOMAIN REQUIRED_FINAL_REPORT_SECTIONS |-> REQUIRED_FINAL_REPORT_SECTIONS[i].id]

SectionIds == Range(required_final_report_section_order)

\* _required_final_report_section_titles
required_final_report_section_titles ==
    [id \in SectionIds |->
        (CHOOSE s \in Range(REQUIRED_FINAL_REPORT_SECTIONS) : s.id = id).title]

RECURSIVE AliasRows(_)
\* The (normalized alias, section id) pairs in the order the alias map receives them.
AliasRows(sections) ==
    IF sections = <<>> THEN <<>>
    ELSE LET s == Head(sections)
             raw == <<s.id, s.title>> \o s.aliases
         IN [i \in DOMAIN raw |->
                <<normalize_final_report_section_token(raw[i]), s.id>>]
            \o AliasRows(Tail(sections))

\* _required_final_report_alias_map, as its rows in insertion order (no normalized
\* alias belongs to two sections, so a later row never overwrites another section's).
required_final_report_alias_map ==
    SelectSeq(AliasRows(REQUIRED_FINAL_REPORT_SECTIONS), LAMBDA row : row[1] # <<>>)

\* 'alias in normalized' on word sequences: alias is a contiguous run of normalized.
\* For the tokens of NormalizedToken this agrees with the substring test on the text.
Contains(normalized, alias) ==
    \E i \in 1..(Len(normalized) - Len(alias) + 1) :
        SubSeq(normalized, i, i + Len(alias) - 1) = alias

\* _resolve_final_report_section_id: the section id a section key names, or None.
ResolveSectionKey(section_key) ==
    LET normalized == normalize_final_report_section_token(section_key)
        rows == required_final_report_alias_map
        direct == {i \in DOMAIN rows : rows[i][1] = normalized}
        within == {i \in DOMAIN rows : Contains(normalized, rows[i][1])}
    IN IF normalized = <<>> THEN None
       ELSE IF direct # {} THEN rows[CHOOSE i \in direct : \A j \in direct : j <= i][2]
       ELSE IF within # {} THEN rows[CHOOSE i \in within : \A j \in within : i <= j][2]
       ELSE None

\* _resolve_final_report_section_id on each key of the vocabulary, computed once.
ResolvedSectionId == [key \in DOMAIN NormalizedToken |-> ResolveSectionKey(key)]

resolve_final_report_section_id(section_key) ==
    IF section_key \in DOMAIN NormalizedToken THEN ResolvedSectionId[section_key] ELSE None

\* A section map holds a text for every required section id; the empty text stands
\* for an absent key (the code never stores an empty content).
NoSections == [id \in SectionIds |-> <<>>]

\* _strip_leading_section_heading
strip_leading_section_heading(section_id, content) ==
    LET text == Strip(content)
    IN IF text = <<>> THEN <<>>
       ELSE IF ~text[1].h THEN text
       ELSE IF resolve_final_report_section_id(text[1].t) # section_id THEN text
       ELSE Strip(Tail(text))

RECURSIVE ExtractLines(_, _, _)
\* The loop of _extract_required_sections_from_markdown: buffers after reading lines,
\* with `active` the section the lines read so far leave open.
ExtractLines(lines, active, buffers) ==
    IF lines = <<>> THEN buffers
    ELSE LET line == Head(lines)
         IN IF line.h
            THEN ExtractLines(Tail(lines), resolve_final_report_section_id(line.t), buffers)
            ELSE IF active # None
                 THEN ExtractLines(Tail(lines), active,
                                   [buffers EXCEPT ![active] = Append(@, line)])
                 ELSE ExtractLines(Tail(lines), active, buffers)

\* _extract_required_sections_from_markdown
extract_required_sections_from_markdown(markdown_text) ==
    LET buffers == ExtractLines(markdown_text, None, NoSections)
    IN [id \in SectionIds |-> Strip(buffers[id])]

RECURSIVE Blocks(_, _)
Blocks(ids, sections) ==
    IF ids = <<>> THEN <<>>
    ELSE LET content == Strip(sections[Head(ids)])
             rest == Blocks(Tail(ids), sections)
             block == <<HeadingLine(required_final_report_section_titles[Head(ids)])>> \o content
         IN IF content = <<>> THEN rest
            ELSE IF rest = <<>> THEN block
            ELSE block \o <<TextLine("")>> \o rest

\* Fault variant: the blocks come in the reverse of the canonical order.
build_final_report_markdown_reversed(sections) ==
    Strip(Blocks([i \in DOMAIN required_final_report_section_order |->
                     required_final_report_section_order[
                         Len(required_final_report_section_order) + 1 - i]],
                 sections))

\* _build_final_report_markdown_from_sections: '## <Title>' and the content of each
\* non-empty required section in canonical order, blocks joined by a blank line.
build_final_report_markdown_from_sections(sections) ==
    Strip(Blocks(required_final_report_section_order, sections))

\* ------------------------------------------------------ report validation

\* _REQUIRED_SECTION_GROUPS of report/final_report.py (label, aliases); the CJK
\* aliases match no heading of the model's vocabulary and are left out.
REQUIRED_SECTION_GROUPS ==
    << <<"Summary", {"summary"}>>,
       <<"Strengths", {"strengths"}>>,
       <<"Weaknesses", {"weaknesses"}>>,
       <<"Key Issues", {"key issues"}>>,
       <<"Actionable Suggestions", {"actionable suggestions"}>>,
       <<"Storyline Options + Writing Outlines", {"storyline options", "writing outlines"}>>,
       <<"Priority Revision Plan", {"priority revision plan"}>>,
       <<"Experiment Inventory & Research Experiment Plan",
         {"experiment inventory", "research experiment plan"}>>,
       <<"Novelty Verification & Related-Work Matrix",
         {"novelty verification", "related-work matrix"}>>,
       <<"References", {"references", "reference"}>>,
       <<"Scores", {"scores", "final score"}>> >>

\* find_missing_required_sections: the labels no heading of the text carries.
find_missing_required_sections(markdown_text) ==
    LET headings == {normalize_final_report_section_token(markdown_text[i].t) :
                        i \in {j \in DOMAIN markdown_text : markdown_text[j].h}}
        found(group) == \E alias \in group[2] : \E heading \in headings :
                            Contains(heading, normalize_final_report_section_token(alias))
    IN IF headings = {} THEN [i \in DOMAIN REQUIRED_SECTION_GROUPS |-> REQUIRED_SECTION_GROUPS[i][1]]
       ELSE LET labels == {g[1] : g \in {x \in Range(REQUIRED_SECTION_GROUPS) : ~found(x)}}
            IN SelectIds([i \in DOMAIN REQUIRED_SECTION_GROUPS |-> REQUIRED_SECTION_GROUPS[i][1]],
                         labels)

\* analyze_report_language, the two counts: a plain line's token is one unit.
chinese_chars(markdown_text) ==
    Cardinality({i \in DOMAIN markdown_text : markdown_text[i].t \in ChineseTokens})

english_words(markdown_text) ==
    Cardinality({i \in DOMAIN markdown_text :
                    markdown_text[i].t \notin ChineseTokens \cup {""}})

\* validate_final_report: [ok, reason].
validate_final_report(markdown, min_english_words, min_chinese_chars, force_english_output) ==
    LET text == Strip(markdown)
        zh == chinese_chars(text)
        en == english_words(text)
        primary == IF en + zh > 0 /\ 2 * zh > en + zh THEN "zh-CN" ELSE "en"
    IN IF text = <<>> THEN [ok |-> FALSE, reason |-> "markdown_required"]
       ELSE IF force_english_output /\ zh > 0
            THEN [ok |-> FALSE, reason |-> "english_required"]
       ELSE IF find_missing_required_sections(text) # <<>>
            THEN [ok |-> FALSE, reason |-> "final_report_sections_not_met"]
       ELSE IF min_english_words > 0 /\ primary = "en" /\ en < min_english_words
            THEN [ok |-> FALSE, reason |-> "final_report_length_not_met"]
       ELSE IF min_chinese_chars > 0 /\ primary = "zh-CN" /\ zh < min_chinese_chars
            THEN [ok |-> FALSE, reason |-> "final_report_length_not_met"]
       ELSE [ok |-> TRUE, reason |-> None]


\* ------------------------------------------------------------------ state

VARIABLES
    settings,   \* the Settings snapshot of the worker process (config.py)
    ctl,        \* run_job's position and the locals of run_job_async
    rt,         \* the ReviewRuntimeContext of the current run (in memory)
    job,        \* the job record as stored in job.json
    files,      \* the artifacts in the job directory
    events,     \* events.jsonl, oldest first
    result,     \* the payload the latest tool call returned to the agent
    calls       \* tool calls issued so far

vars == <<settings, ctl, rt, job, files, events, result, calls>>

ToolNames ==
    {"mcp_status_update", "pdf_search", "pdf_read_lines", "pdf_jump", "pdf_annotate",
     "paper_search", "read_paper", "question_prompt", "review_final_markdown_write"}

\* One row of events.jsonl: the event name and, for a status event, the status.
Event(name) == [event |-> name, status |-> None]

StatusEvent(name, status) == [event |-> name, status |-> status]

\* PaperSearchUsage() of types.py
NewPaperSearchUsage ==
    [total_calls |-> 0, successful_calls |-> 0, effective_calls |-> 0,
     papers_found |-> 0, distinct_queries |-> 0]

\* ReviewRuntimeContext(...) as run_job_async constructs it.
NewRuntime(page_index) ==
    [page_index |-> page_index,
     annotations |-> <<>>,
     final_markdown_text |-> <<>>,
     final_report_draft_sections |-> NoSections,
     final_report_draft_version |-> 0,
     tool_counts |-> [t \in ToolNames |-> 0],
     paper_search_usage |-> NewPaperSearchUsage,
     paper_search_signatures |-> {},
     status_updates |-> 0]

\* JobState(...) as _create_job stores it: queued, source PDF recorded.
NewJob ==
    [status |-> "queued",
     message |-> "Job queued.",
     error |-> None,
     annotation_count |-> 0,
     final_report_ready |-> FALSE,
     pdf_ready |-> FALSE,
     usage |-> [tool |-> [t \in ToolNames |-> 0], paper_search |-> NewPaperSearchUsage],
     artifacts |-> [source_pdf_path |-> TRUE, mineru_markdown_path |-> FALSE,
                    mineru_content_list_path |-> FALSE, annotations_path |-> FALSE,
                    final_markdown_path |-> FALSE, report_pdf_path |-> FALSE,
                    prompt_snapshot_path |-> FALSE],
     metadata |-> [llm_api_mode |-> FALSE, parse_warning |-> FALSE,
                   last_status_update |-> FALSE,
                   final_report_source |-> FALSE, final_report_draft_version |-> 0,
                   final_report_draft |-> NoSections,
                   post_exception_recovery |-> FALSE,
                   pdf_export_recovery_error |-> FALSE]]

\* The job directory after _create_job: only source.pdf.
NewFiles ==
    [source_pdf |-> TRUE, mineru_markdown |-> FALSE, mineru_content_list |-> FALSE,
     annotations |-> NoFile, final_markdown |-> NoFile, report_pdf |-> FALSE,
     prompt_snapshot |-> FALSE]

\* ReviewRuntimeContext.record_tool
record_tool(r, name) == [r EXCEPT !.tool_counts[name] = @ + 1]

\* Fault variant: the flush of usage leaves the annotation count of the job alone.
sync_state_usage_without_annotations(j, r) ==
    [j EXCEPT !.usage = [tool |-> r.tool_counts, paper_search |-> r.paper_search_usage]]

\* ReviewRuntimeContext.sync_state_usage (through mutate_job_state): the job record
\* with the runtime's tool counters, paper-search usage and annotation count.
sync_state_usage(j, r) ==
    [j EXCEPT !.usage = [tool |-> r.tool_counts, paper_search |-> r.paper_search_usage],
              !.annotation_count = Len(r.annotations)]

\* A tool call is issued by a running agent task (a regular attempt or a forced
\* final-write run), within the number of calls explored.
AgentTaskRunning == ctl.pc \in {"agent_run", "forced_run"} /\ calls < ctl.budget

\* What every tool call does first and last: count the call, flush usage to job.json.
ToolReturn(r, payload, new_events) ==
    /\ rt' = r
    /\ job' = sync_state_usage(job, r)
    /\ events' = events \o new_events
    /\ result' = payload
    /\ calls' = calls + 1
    /\ UNCHANGED <<settings, ctl, files>>

\* What the framework gets when a handler lets an exception out.
RaisedToFramework(tool) == [tool |-> tool, status |-> None, reason |-> None, raised |-> TRUE]

\* A handler raises with the runtime at r: no sync_state_usage, no event, no payload.
ToolRaises(r, tool) ==
    /\ rt' = r
    /\ result' = RaisedToFramework(tool)
    /\ calls' = calls + 1
    /\ UNCHANGED <<settings, ctl, job, files, events>>

\* ------------------------------------------------------------- the tools

mcp_status_update ==
    /\ AgentTaskRunning
    /\ LET r == [record_tool(rt, "mcp_status_update") EXCEPT !.status_updates = @ + 1]
       IN /\ rt' = r
          /\ job' = sync_state_usage(
                        [job EXCEPT !.metadata.last_status_update = TRUE,
                                    !.message = "Agent progress"], r)
          /\ events' = Append(events, Event("agent_status_update"))
          /\ result' = [tool |-> "mcp_status_update", status |-> "ok", reason |-> None]
          /\ calls' = calls + 1
          /\ UNCHANGED <<settings, ctl, files>>

pdf_search ==
    /\ AgentTaskRunning
    /\ \E query \in {"", "q"} :
        LET r == record_tool(rt, "pdf_search")
        IN ToolReturn(r,
              IF query = ""
              THEN [tool |-> "pdf_search", status |-> "error", reason |-> "empty_query"]
              ELSE [tool |-> "pdf_search", status |-> "ok", reason |-> None],
              <<>>)

\* The clamped line range of pdf_read_lines and pdf_annotate: start, end_idx and
\* the lines lines[start - 1 : end_idx].
ClampRange(lines, start_line, end_line) ==
    LET start == Max(1, start_line)
        end == Max(start, end_line)
        end_idx == Min(Len(lines), end)
    IN [start |-> start, end_idx |-> end_idx, snippet |-> SubSeq(lines, start, end_idx)]

PageLines(r, page) == IF page \in DOMAIN r.page_index THEN r.page_index[page] ELSE <<>>

\* One call of pdf_read_lines.
ReadLinesCall(page, start_line, end_line) ==
    LET r == record_tool(rt, "pdf_read_lines")
        lines == PageLines(r, page)
        span == ClampRange(lines, start_line, end_line)
    IN ToolReturn(r,
          IF lines = <<>>
          THEN [tool |-> "pdf_read_lines", status |-> "error", reason |-> "page_not_found"]
          ELSE [tool |-> "pdf_read_lines", status |-> "ok", reason |-> None, page |-> page,
                start_line |-> span.start, end_line |-> span.end_idx,
                lines |-> span.snippet],
          <<>>)

pdf_read_lines ==
    /\ AgentTaskRunning
    /\ \E page \in {1, 2}, start_line \in {0}, end_line \in {3} :
        ReadLinesCall(page, start_line, end_line)

pdf_jump ==
    /\ AgentTaskRunning
    /\ \E page \in {1, 2} :
        LET r == record_tool(rt, "pdf_jump")
            lines == PageLines(r, page)
        IN ToolReturn(r,
              IF lines = <<>>
              THEN [tool |-> "pdf_jump", status |-> "error", reason |-> "page_not_found"]
              ELSE [tool |-> "pdf_jump", status |-> "ok", reason |-> None,
                    line_count |-> Len(lines)],
              <<>>)

question_prompt ==
    /\ AgentTaskRunning
    /\ ToolReturn(record_tool(rt, "question_prompt"),
                  [tool |-> "question_prompt", status |-> "not_available", reason |-> None],
                  <<>>)

\* Fault variant: pdf_annotate without its paper-search gate.
pdf_annotate_error_ungated(r, page, start_line, end_line, comment) ==
    LET lines == PageLines(r, page)
        span == ClampRange(lines, start_line, end_line)
    IN IF lines = <<>> THEN "page_not_found"
       ELSE IF span.snippet = <<>> THEN "empty_span"
       ELSE IF comment = "" THEN "comment_required"
       ELSE None

\* The reason pdf_annotate rejects a call with, or None when it accepts it.
pdf_annotate_error(r, page, start_line, end_line, comment) ==
    LET required_search_calls == Max(0, settings.min_paper_search_calls_for_pdf_annotate)
        current_search_calls == Max(0, r.paper_search_usage.total_calls)
        lines == PageLines(r, page)
        span == ClampRange(lines, start_line, end_line)
    IN IF current_search_calls < required_search_calls THEN "paper_search_calls_not_met"
       ELSE IF lines = <<>> THEN "page_not_found"
       ELSE IF span.snippet = <<>> THEN "empty_span"
       ELSE IF comment = "" THEN "comment_required"
       ELSE None

pdf_annotate ==
    /\ AgentTaskRunning
    /\ \E page \in {1, 2}, start_line \in {1, 3}, end_line \in {0}, comment \in {"", "c"} :
        LET r == record_tool(rt, "pdf_annotate")
            reason == pdf_annotate_error(r, page, start_line, end_line, comment)
            span == ClampRange(PageLines(r, page), start_line, end_line)
            ann == [page |-> page, start_line |-> span.start, end_line |-> span.end_idx,
                    text |-> span.snippet, comment |-> comment]
            r2 == [r EXCEPT !.annotations = Append(@, ann)]
        IN IF reason # None
           THEN ToolReturn(r, [tool |-> "pdf_annotate", status |-> "error", reason |-> reason,
                               retry_required |-> reason = "paper_search_calls_not_met",
                               retry_tool |-> IF reason = "paper_search_calls_not_met"
                                              THEN "pdf_annotate" ELSE None],
                           <<>>)
           ELSE \* persist_annotations: annotations.json, then the job record
                /\ rt' = r2
                /\ files' = [files EXCEPT !.annotations = r2.annotations]
                /\ job' = sync_state_usage(job, r2)
                /\ events' = Append(events, Event("annotation_created"))
                /\ result' = [tool |-> "pdf_annotate", status |-> "ok", reason |-> None,
                              annotation_count |-> Len(r2.annotations)]
                /\ calls' = calls + 1
                /\ UNCHANGED <<settings, ctl>>

\* What the paper-search adapter can do with a request: raise, or return a payload.
\* A payload has 'success', 'count', the number of dict rows in 'papers', the
\* counts of its 'question_results' rows, its 'questions' and the questions of
\* its 'question_results' rows.
AdapterSearchOutcomes ==
    { [raised |-> TRUE, success |-> FALSE, count |-> 0, papers |-> 0, group_counts |-> <<>>,
       questions |-> <<>>, question_results |-> <<>>],
      [raised |-> FALSE, success |-> FALSE, count |-> 2, papers |-> 2, group_counts |-> <<>>,
       questions |-> <<>>, question_results |-> <<>>],
      [raised |-> FALSE, success |-> TRUE, count |-> -1, papers |-> 0, group_counts |-> <<-1, 0>>,
       questions |-> <<>>, question_results |-> <<>>],
      [raised |-> FALSE, success |-> TRUE, count |-> 0, papers |-> 1, group_counts |-> <<>>,
       questions |-> << <<" ", "A">>, <<"b">> >>, question_results |-> << <<"B", " ">>, <<>> >>] }

RECURSIVE SumCounts(_)
\* total += max(0, int(row.get('count') or 0)) over the question_results rows
SumCounts(group_counts) ==
    IF group_counts = <<>> THEN 0
    ELSE Max(0, Head(group_counts)) + SumCounts(Tail(group_counts))

\* _count_papers: 'count' when positive, else the number of paper rows when
\* there are any, else the sum of the question_results counts.
count_papers(outcome) ==
    IF outcome.count > 0 THEN outcome.count
    ELSE IF outcome.papers > 0 THEN outcome.papers
    ELSE SumCounts(outcome.group_counts)

\* Fault variant: a call whose result is not a success is not counted.
paper_search_usage_after_success_only(usage, success, paper_count, signatures) ==
    [total_calls |-> usage.total_calls + (IF success THEN 1 ELSE 0),
     successful_calls |-> usage.successful_calls + (IF success THEN 1 ELSE 0),
     effective_calls |-> usage.effective_calls + (IF success /\ paper_count > 0 THEN 1 ELSE 0),
     papers_found |-> usage.papers_found + (IF success /\ paper_count > 0 THEN paper_count ELSE 0),
     distinct_queries |-> Cardinality({sig \in signatures : sig # <<>>})]

\* The usage counters after a call whose (possibly substituted) result is given.
paper_search_usage_after(usage, success, paper_count, signatures) ==
    [total_calls |-> usage.total_calls + 1,
     successful_calls |-> usage.successful_calls + (IF success THEN 1 ELSE 0),
     effective_calls |-> usage.effective_calls + (IF success /\ paper_count > 0 THEN 1 ELSE 0),
     papers_found |-> usage.papers_found + (IF success /\ paper_count > 0 THEN paper_count ELSE 0),
     distinct_queries |-> Cardinality({sig \in signatures : sig # <<>>})]

\* paper_search up to its await: the call is counted and the signatures of the
\* request are added; nothing is flushed to job.json.
\* question_list is the list normalize_question_list returns (at most 3 items).
PaperSearchBeforeAwait(r, query, question_list) ==
    [record_tool(r, "paper_search") EXCEPT
        !.paper_search_signatures =
            @ \cup (IF normalize_signature(query) # <<>> THEN {normalize_signature(query)}
                    ELSE {})
              \cup {normalize_signature(question_list[i]) : i \in DOMAIN question_list}]

\* Fault variant: the questions the adapter reports are not recorded.
PaperSearchSignaturesKept(r, outcome) == r.paper_search_signatures

\* The signatures after the adapter's result: those of the questions it reports
\* (an adapter exception is replaced by a failure payload echoing the request).
PaperSearchSignaturesAfter(r, outcome) ==
    r.paper_search_signatures
        \cup (IF outcome.raised THEN {}
              ELSE {normalize_signature(outcome.questions[i]) : i \in DOMAIN outcome.questions}
                   \cup {normalize_signature(outcome.question_results[i]) :
                            i \in {j \in DOMAIN outcome.question_results :
                                     normalize_signature(outcome.question_results[j]) # <<>>}})

\* paper_search from the adapter's result to its return: the runtime ...
PaperSearchAfterAwait(r, outcome) ==
    [r EXCEPT !.paper_search_signatures = PaperSearchSignaturesAfter(r, outcome),
              !.paper_search_usage =
                  paper_search_usage_after(r.paper_search_usage,
                                           ~outcome.raised /\ outcome.success,
                                           IF outcome.raised THEN 0 ELSE count_papers(outcome),
                                           PaperSearchSignaturesAfter(r, outcome))]

\* Fault variant: only successful calls count towards the annotation gate hint.
PaperSearchPayloadCountingSuccesses(r2, outcome) ==
    [tool |-> "paper_search",
     status |-> None,
     reason |-> IF outcome.raised THEN "paper_search_request_failed" ELSE None,
     success |-> ~outcome.raised /\ outcome.success,
     retry_required |-> outcome.raised,
     retry_tool |-> IF outcome.raised THEN "paper_search" ELSE None,
     can_start_pdf_annotate |->
         r2.paper_search_usage.successful_calls
             >= Max(0, settings.min_paper_search_calls_for_pdf_annotate),
     next_action |-> IF r2.paper_search_usage.successful_calls
                           >= Max(0, settings.min_paper_search_calls_for_pdf_annotate)
                     THEN "start_pdf_annotate"
                     ELSE "continue_paper_search"]

\* ... and the payload, r2 being the runtime after the call.
PaperSearchPayload(r2, outcome) ==
    [tool |-> "paper_search",
     status |-> None,
     reason |-> IF outcome.raised THEN "paper_search_request_failed" ELSE None,
     success |-> ~outcome.raised /\ outcome.success,
     retry_required |-> outcome.raised,
     retry_tool |-> IF outcome.raised THEN "paper_search" ELSE None,
     can_start_pdf_annotate |->
         r2.paper_search_usage.total_calls
             >= Max(0, settings.min_paper_search_calls_for_pdf_annotate),
     next_action |-> IF r2.paper_search_usage.total_calls
                           >= Max(0, settings.min_paper_search_calls_for_pdf_annotate)
                     THEN "start_pdf_annotate"
                     ELSE "continue_paper_search"]

PaperSearchQueries == {<<>>, <<"a">>}

\* One paper_search call with no other call running during its await.
paper_search ==
    /\ AgentTaskRunning
    /\ \E query \in PaperSearchQueries, outcome \in AdapterSearchOutcomes :
       \E r2 \in {PaperSearchAfterAwait(PaperSearchBeforeAwait(rt, query, <<>>), outcome)} :
        ToolReturn(r2, PaperSearchPayload(r2, outcome), <<Event("paper_search_called")>>)

\* What the paper-read adapter can do with a request: raise (raise_for_status,
\* a transport error), or return a payload with or without success.
AdapterReadOutcomes ==
    { [raised |-> TRUE, success |-> FALSE],
      [raised |-> FALSE, success |-> FALSE],
      [raised |-> FALSE, success |-> TRUE] }

\* The adapter's payload, returned as it is.
ReadPaperPayload(outcome) ==
    [tool |-> "read_paper", status |-> None, reason |-> None, success |-> outcome.success]

read_paper ==
    /\ AgentTaskRunning
    /\ \E items \in {0, 1} :
        IF items = 0
        THEN ToolReturn(record_tool(rt, "read_paper"),
                        [tool |-> "read_paper", status |-> "error",
                         reason |-> "empty_items"], <<>>)
        ELSE \E outcome \in AdapterReadOutcomes :
                IF outcome.raised
                THEN \* the await is outside any try: the exception leaves the handler
                     ToolRaises(record_tool(rt, "read_paper"), "read_paper")
                ELSE ToolReturn(record_tool(rt, "read_paper"), ReadPaperPayload(outcome),
                                <<Event("read_paper_called")>>)


\* ------------------------------------------- review_final_markdown_write

NoLegacy ==
    [summary |-> <<>>, strengths |-> <<>>, weaknesses |-> <<>>, issues |-> <<>>,
     suggestions |-> <<>>, storylines |-> <<>>]

\* _build_sections_from_legacy_fields (string-valued fields; an absent field is empty)
build_sections_from_legacy_fields(legacy) ==
    [NoSections EXCEPT
        !["summary"] = Strip(legacy.summary),
        !["strengths"] = Strip(legacy.strengths),
        !["weaknesses"] = Strip(legacy.weaknesses),
        !["key_issues"] = Strip(legacy.issues),
        !["actionable_suggestions"] = Strip(legacy.suggestions),
        !["storyline_options_writing_outlines"] = Strip(legacy.storylines)]

\* dict.update: the entries of `more` replace those of `base`.
UpdateSections(base, more) ==
    [id \in SectionIds |-> IF more[id] # <<>> THEN more[id] ELSE base[id]]

\* _normalize_final_report_sections on the stored draft, whose keys are section ids.
normalize_final_report_sections(raw_sections) ==
    [id \in SectionIds |-> Strip(raw_sections[id])]

\* Fault variant: every required section is listed as completed.
CompletedSectionsAll(sections) == required_final_report_section_order

\* The section ids of `order` that have content in `sections`.
CompletedSections(sections) ==
    SelectIds(required_final_report_section_order, {id \in SectionIds : Strip(sections[id]) # <<>>})

\* Fault variant: the last required section is not asked for.
MissingSectionsButLast(sections) ==
    SelectIds(SubSeq(required_final_report_section_order, 1,
                     Len(required_final_report_section_order) - 1),
              {id \in SectionIds : Strip(sections[id]) = <<>>})

MissingSections(sections) ==
    SelectIds(required_final_report_section_order, {id \in SectionIds : Strip(sections[id]) = <<>>})

\* Fault variant: the commit-time gates without the annotation gate.
final_gate_reason_without_annotations(r) ==
    LET usage == r.paper_search_usage
    IN IF settings.enable_final_gates
          /\ usage.total_calls < Max(0, settings.min_paper_search_calls_for_final)
       THEN "paper_search_calls_not_met"
       ELSE IF settings.enable_final_gates
               /\ usage.distinct_queries < Max(0, settings.min_distinct_paper_queries_for_final)
       THEN "paper_search_distinct_queries_not_met"
       ELSE None

\* The commit-time gates of review_final_markdown_write on a complete draft:
\* the reason of the first gate that rejects, or None.
final_gate_reason(r) ==
    LET usage == r.paper_search_usage
        enforce_final_gates == settings.enable_final_gates
        required_paper_calls == Max(0, settings.min_paper_search_calls_for_final)
        required_distinct_queries == Max(0, settings.min_distinct_paper_queries_for_final)
        required_annotations == Max(1, settings.min_annotations_for_final)
    IN IF enforce_final_gates /\ usage.total_calls < required_paper_calls
       THEN "paper_search_calls_not_met"
       ELSE IF enforce_final_gates /\ usage.distinct_queries < required_distinct_queries
       THEN "paper_search_distinct_queries_not_met"
       ELSE IF enforce_final_gates /\ Len(r.annotations) < required_annotations
       THEN "annotation_count_not_met"
       ELSE None

\* The short-circuit of review_final_markdown_write once a final report is
\* persisted: nothing is stored.
IgnoredPlan(r) ==
    [kind |-> "ignored", reason |-> None,
     draft |-> r.final_report_draft_sections,
     version |-> r.final_report_draft_version,
     markdown |-> <<>>, validation_ok |-> TRUE]

\* section_id or section_title
SectionKey(a) == IF a.section_id # None THEN a.section_id ELSE a.section_title

\* A call rejected for its input: nothing is stored.
RejectedPlan(r, reason) ==
    [kind |-> "rejected", reason |-> reason,
     draft |-> r.final_report_draft_sections,
     version |-> r.final_report_draft_version,
     markdown |-> <<>>, validation_ok |-> TRUE]

\* A call that stored the merged draft; a commit also carries the report text and
\* the verdict of validate_final_report.
StoredPlan(kind, reason, draft_sections, draft_version, markdown_text, validation_ok) ==
    [kind |-> kind, reason |-> reason, draft |-> draft_sections,
     version |-> draft_version, markdown |-> markdown_text,
     validation_ok |-> validation_ok]

\* Fault variant: the verdict of the validation is not looked at.
PlanForMarkdownUnvalidated(draft_sections, draft_version, markdown_text, validation) ==
    IF markdown_text = <<>>
    THEN StoredPlan("gate_failed", "markdown_required", draft_sections, draft_version,
                    <<>>, TRUE)
    ELSE StoredPlan("commit", None, draft_sections, draft_version, markdown_text,
                    validation.ok)

\* The tail of review_final_markdown_write: the report text is built and validated.
PlanForMarkdown(draft_sections, draft_version, markdown_text, validation) ==
    IF markdown_text = <<>>
    THEN StoredPlan("gate_failed", "markdown_required", draft_sections, draft_version,
                    <<>>, TRUE)
    ELSE IF ~validation.ok /\ settings.enable_final_gates
    THEN StoredPlan("gate_failed", validation.reason, draft_sections, draft_version,
                    <<>>, TRUE)
    ELSE StoredPlan("commit", None, draft_sections, draft_version, markdown_text,
                    validation.ok)

\* The draft is merged and stored: missing sections, then the gates, then the text.
PlanForDraft(r, draft_sections, draft_version, markdown_text) ==
    IF MissingSections(draft_sections) # <<>>
    THEN StoredPlan("draft_saved", "required_sections_missing", draft_sections,
                    draft_version, <<>>, TRUE)
    ELSE IF final_gate_reason(r) # None
    THEN StoredPlan("gate_failed", final_gate_reason(r), draft_sections, draft_version,
                    <<>>, TRUE)
    ELSE PlanForMarkdown(draft_sections, draft_version, markdown_text,
                         validate_final_report(markdown_text,
                                               settings.min_english_words_for_final,
                                               settings.min_chinese_chars_for_final,
                                               settings.force_english_output))

\* Fault variant: every stored draft gets a new version, merged content or not.
PlanForMergeAlwaysBumping(r, incoming_sections, draft_sections) ==
    IF draft_sections = NoSections
    THEN RejectedPlan(r, "section_payload_required")
    ELSE PlanForDraft(r, draft_sections, Max(1, r.final_report_draft_version + 1),
                      build_final_report_markdown_from_sections(draft_sections))

\* The incoming sections are known: merge them into the runtime's draft.
PlanForMerge(r, incoming_sections, draft_sections) ==
    IF draft_sections = NoSections
    THEN RejectedPlan(r, "section_payload_required")
    ELSE PlanForDraft(r, draft_sections,
                      Max(1, r.final_report_draft_version
                             + (IF incoming_sections # NoSections THEN 1 ELSE 0)),
                      build_final_report_markdown_from_sections(draft_sections))

PlanForIncoming(r, incoming_sections) ==
    PlanForMerge(r, incoming_sections,
                 UpdateSections(normalize_final_report_sections(r.final_report_draft_sections),
                                incoming_sections))

\* section_content was given for the requested section.
PlanAfterSectionContent(r, incoming0, requested_section_id, requested_content) ==
    IF requested_content = <<>>
    THEN RejectedPlan(r, "section_content_required")
    ELSE PlanForIncoming(r, [incoming0 EXCEPT ![requested_section_id] = requested_content])

\* The section the call names has been looked up (None: no such section).
PlanAfterSectionLookup(r, a, incoming0, requested_section_id) ==
    IF SectionKey(a) # None /\ requested_section_id = None
    THEN RejectedPlan(r, "section_id_invalid")
    ELSE IF requested_section_id = None
    THEN PlanForIncoming(r, incoming0)
    ELSE IF ~a.has_section_content
    THEN (IF incoming0[requested_section_id] = <<>>
          THEN RejectedPlan(r, "section_content_required")
          ELSE PlanForIncoming(r, incoming0))
    ELSE PlanAfterSectionContent(
             r, incoming0, requested_section_id,
             strip_leading_section_heading(requested_section_id, Strip(a.section_content)))

\* incoming_sections before section_id / section_content are looked at: the legacy
\* fields, overridden by the sections found in `markdown`; a markdown with no
\* recognised heading becomes the summary when there are no legacy fields.
MergeMarkdownSections(raw_markdown_input, legacy_sections, markdown_sections) ==
    IF markdown_sections # NoSections
    THEN UpdateSections(legacy_sections, markdown_sections)
    ELSE IF raw_markdown_input # <<>> /\ legacy_sections = NoSections
    THEN [NoSections EXCEPT !["summary"] = raw_markdown_input]
    ELSE legacy_sections

IncomingBase(a) ==
    MergeMarkdownSections(Strip(a.markdown),
                          build_sections_from_legacy_fields(a.legacy),
                          extract_required_sections_from_markdown(Strip(a.markdown)))

\* review_final_markdown_write below its short-circuit: what the call returns and
\* what it stores, before any effect.
\*   kind: "rejected" (input error, nothing stored), "draft_saved",
\*   "gate_failed" (draft stored, commit refused), "commit".
FreshWritePlan(r, a) ==
    PlanAfterSectionLookup(r, a, IncomingBase(a),
                           resolve_final_report_section_id(SectionKey(a)))

\* Fault variant: the short-circuit is tested only after the input checks, so a
\* call after the commit can still be rejected.
FinalWritePlanLateShortCircuit(r, a) ==
    LET plan == FreshWritePlan(r, a)
    IN IF plan.kind = "rejected" THEN plan
       ELSE IF r.final_markdown_text # <<>> THEN IgnoredPlan(r)
       ELSE plan

\* The decision of one review_final_markdown_write call on runtime r (the call
\* already counted).
FinalWritePlan(r, a) ==
    IF r.final_markdown_text # <<>> THEN IgnoredPlan(r) ELSE FreshWritePlan(r, a)

\* Fault variant: a commit does not keep final_markdown_text in the runtime.
RuntimeAfterPlanTextNotKept(r, plan) ==
    [r EXCEPT !.final_report_draft_sections = plan.draft,
              !.final_report_draft_version = plan.version]

\* Fault variant: a call rejected at commit time leaves the draft it found.
RuntimeAfterPlanDraftDropped(r, plan) ==
    [r EXCEPT !.final_report_draft_sections = IF plan.kind = "gate_failed" THEN @ ELSE plan.draft,
              !.final_report_draft_version = IF plan.kind = "gate_failed" THEN @ ELSE plan.version,
              !.final_markdown_text = IF plan.kind = "commit" THEN plan.markdown ELSE @]

\* The runtime after the call has stored what the plan says.
RuntimeAfterPlan(r, plan) ==
    [r EXCEPT !.final_report_draft_sections = plan.draft,
              !.final_report_draft_version = plan.version,
              !.final_markdown_text = IF plan.kind = "commit" THEN plan.markdown ELSE @]

\* ReviewRuntimeContext.set_final_markdown, the job-record part.
set_final_markdown(j, r) ==
    [j EXCEPT !.final_report_ready = TRUE,
              !.artifacts.final_markdown_path = TRUE,
              !.annotation_count = Len(r.annotations)]

\* The closing mutate_job_state of a commit: message and metadata.
record_final_report_metadata(j, plan) ==
    [j EXCEPT !.message = "Final report persisted successfully.",
              !.metadata.final_report_source = TRUE,
              !.metadata.final_report_draft_version = plan.version,
              !.metadata.final_report_draft = plan.draft]

\* The payload review_final_markdown_write returns for a plan.
FinalWritePayload(plan) ==
    [tool |-> "review_final_markdown_write",
     status |-> CASE plan.kind \in {"ignored", "commit"} -> "ok"
                  [] plan.kind = "draft_saved" -> "partial"
                  [] OTHER -> "error",
     reason |-> plan.reason,
     message |-> CASE plan.kind = "ignored" -> "Final report is already persisted."
                   [] plan.kind = "commit" -> "Final report persisted successfully."
                   [] plan.kind = "draft_saved" -> "Section draft saved."
                   [] OTHER -> "error",
     task_completed |-> plan.kind \in {"ignored", "commit"},
     final_report_persisted |-> plan.kind \in {"ignored", "commit"},
     retry_required |-> plan.kind \notin {"ignored", "commit"},
     retry_tool |-> IF plan.kind \in {"ignored", "commit"} THEN None
                    ELSE "review_final_markdown_write",
     completed_sections |-> IF plan.kind = "rejected" THEN <<>> ELSE CompletedSections(plan.draft),
     missing_sections |-> IF plan.kind \in {"rejected", "ignored"} THEN <<>>
                          ELSE MissingSections(plan.draft),
     next_required_section |-> IF plan.kind = "draft_saved" /\ MissingSections(plan.draft) # <<>>
                               THEN MissingSections(plan.draft)[1] ELSE None,
     draft_version |-> Max(1, plan.version)]

\* The events one call appends, in order.
FinalWriteEvents(plan) ==
    CASE plan.kind = "ignored" -> <<>>
      [] plan.kind \in {"rejected", "gate_failed"} -> <<Event("final_report_write_failed")>>
      [] plan.kind = "draft_saved" -> <<Event("final_report_draft_saved")>>
      [] plan.kind = "commit" ->
            (IF plan.validation_ok THEN <<>> ELSE <<Event("final_report_validation_skipped")>>)
            \o <<Event("final_report_persisted")>>

X == <<TextLine("X")>>

\* A full report as one markdown blob, and one without its last section.
FullMarkdown == build_final_report_markdown_from_sections([id \in SectionIds |-> X])

TenSectionMarkdown ==
    build_final_report_markdown_from_sections([[id \in SectionIds |-> X] EXCEPT !["scores"] = <<>>])

\* The argument records the agent calls review_final_markdown_write with; an
\* omitted markdown or legacy field is empty, has_section_content tells an omitted
\* section_content (None) from an empty one.
FinalWriteInputs ==
    { [markdown |-> <<>>, legacy |-> NoLegacy, section_id |-> c.id, section_title |-> None,
       has_section_content |-> c.given, section_content |-> c.text] :
         c \in {[id |-> None, given |-> FALSE, text |-> <<>>],
                [id |-> "bogus", given |-> TRUE, text |-> X],
                [id |-> "scores", given |-> FALSE, text |-> <<>>],
                [id |-> "scores", given |-> TRUE, text |-> <<>>],
                [id |-> "scores", given |-> TRUE, text |-> X],
                [id |-> "scores", given |-> TRUE,
                 text |-> <<HeadingLine("Scores"), TextLine("Y")>>],
                [id |-> "scores", given |-> TRUE, text |-> <<TextLine("zh")>>]} }
    \cup
    { [markdown |-> md, legacy |-> NoLegacy, section_id |-> None, section_title |-> None,
       has_section_content |-> FALSE, section_content |-> <<>>] :
         md \in {TenSectionMarkdown, FullMarkdown} }
    \cup
    { [markdown |-> <<>>, legacy |-> [NoLegacy EXCEPT !.summary = X], section_id |-> None,
       section_title |-> "Summary", has_section_content |-> FALSE, section_content |-> <<>>] }

\* One call of review_final_markdown_write with the arguments a.
FinalWriteCall(a) ==
    \E plan \in {FinalWritePlan(record_tool(rt, "review_final_markdown_write"), a)} :
        LET r2 == RuntimeAfterPlan(record_tool(rt, "review_final_markdown_write"), plan)
        IN /\ rt' = r2
           /\ files' = IF plan.kind = "commit"
                       THEN [files EXCEPT !.final_markdown = plan.markdown]
                       ELSE files
           /\ job' = IF plan.kind = "commit"
                     THEN record_final_report_metadata(
                              sync_state_usage(set_final_markdown(job, r2), r2), plan)
                     ELSE sync_state_usage(job, r2)
           /\ events' = events \o FinalWriteEvents(plan)
           /\ result' = FinalWritePayload(plan)
           /\ calls' = calls + 1
           /\ UNCHANGED <<settings, ctl>>

review_final_markdown_write ==
    /\ AgentTaskRunning
    /\ \E a \in FinalWriteInputs : FinalWriteCall(a)


\* ------------------------------------------------- run_job / run_job_async

\* Fault variant: the status update writes a record whose readiness latch is reset.
set_status_job_resetting(j, status, message) ==
    [j EXCEPT !.status = status, !.message = message, !.final_report_ready = FALSE]

\* state.set_status: the job record first, then the 'status' event.
set_status_job(j, status, message) == [j EXCEPT !.status = status, !.message = message]

set_status_events(ev, status) == Append(ev, StatusEvent("status", status))

\* Fault variant: fail_job records message and error but leaves the status.
fail_job_job_keeps_status(j) ==
    [j EXCEPT !.message = "Review pipeline failed.", !.error = "detail"]

\* state.fail_job: the job record first, then the 'failed' event.
fail_job_job(j) ==
    [j EXCEPT !.status = "failed", !.message = "Review pipeline failed.", !.error = "detail"]

fail_job_events(ev) == Append(ev, Event("failed"))

\* Fault variant: the requested number of attempts is used as it is.
max_attempts_as_requested == settings.agent_resume_attempts

\* max_attempts = max(1, min(2, requested_attempts))
max_attempts == Max(1, Min(2, settings.agent_resume_attempts))

\* The page index build_page_index hands to the runtime: page 1, two lines.
PageIndex == [p \in {1} |-> <<"l1", "l2">>]

\* _render_report_pdf succeeded: final_report.pdf written, 'pdf_export_rendered' logged.
RenderedFiles(f) == [f EXCEPT !.report_pdf = TRUE]

\* The tail of run_job_async once the attempt loop is left with a final report:
\* status pdf_exporting, the existence check, the render, apply_completed, 'completed'.
\* ev are the events logged so far, render_ok whether _render_report_pdf returns.
ExportAndComplete(j, ev, render_ok) ==
    LET j1 == set_status_job(j, "pdf_exporting", "Rendering final markdown report into PDF...")
        ev1 == set_status_events(ev, "pdf_exporting")
    IN IF files.final_markdown = NoFile \/ ~render_ok
       THEN /\ job' = j1
            /\ events' = ev1
            /\ files' = files
            /\ ctl' = [ctl EXCEPT !.pc = "exception"]
       ELSE /\ files' = RenderedFiles(files)
            /\ job' = [j1 EXCEPT !.status = "completed",
                                 !.message = "Review pipeline completed.",
                                 !.error = None,
                                 !.final_report_ready = TRUE,
                                 !.pdf_ready = TRUE,
                                 !.artifacts.final_markdown_path = TRUE,
                                 !.artifacts.report_pdf_path = TRUE]
            /\ events' = ev1 \o <<Event("pdf_export_rendered"), Event("completed")>>
            /\ ctl' = [ctl EXCEPT !.pc = "done"]

\* run_job_async from its first line to the await of parse_pdf: the job record ...
StartedJob(j) ==
    set_status_job([j EXCEPT !.metadata.llm_api_mode = TRUE], "pdf_parsing",
                   "Polling MinerU parse result and assembling markdown...")

\* ... and the event log.
StartedEvents(ev) ==
    set_status_events(
        set_status_events(Append(ev, Event("llm_api_mode_selected")),
                          "pdf_uploading_to_mineru"),
        "pdf_parsing")

StartRun ==
    /\ ctl.pc \in {"spawned", "crashed"}
    /\ files.source_pdf
    /\ events' = StartedEvents(events)
    /\ job' = StartedJob(job)
    /\ ctl' = [ctl EXCEPT !.pc = "parsing", !.attempt = 0, !.forced_choice = 0]
    /\ UNCHANGED <<settings, rt, files, result, calls>>

\* parse_pdf raises (upload, polling or download failed, or the parse timed out).
ParseRaises ==
    /\ ctl.pc = "parsing"
    /\ ctl' = [ctl EXCEPT !.pc = "exception"]
    /\ UNCHANGED <<settings, rt, job, files, events, result, calls>>

\* parse_pdf returns: artifacts written, page index built, status agent_running,
\* the prompt snapshot, the runtime constructed, and the first agent run started.
ParsedFiles(f) ==
    [f EXCEPT !.mineru_markdown = TRUE, !.mineru_content_list = TRUE, !.prompt_snapshot = TRUE]

ParsedJob(j, warning) ==
    set_status_job(
        [j EXCEPT !.artifacts.mineru_markdown_path = TRUE,
                  !.artifacts.mineru_content_list_path = TRUE,
                  !.artifacts.annotations_path = TRUE,
                  !.artifacts.prompt_snapshot_path = TRUE,
                  !.metadata.parse_warning = warning],
        "agent_running", "Running review agent with tool loop...")

ParsedEvents(ev, warning) ==
    set_status_events(
        ev \o (IF warning THEN <<Event("markdown_parse_warning")>> ELSE <<>>),
        "agent_running")
    \o (IF settings.agent_resume_attempts # max_attempts
        THEN <<Event("agent_resume_attempts_capped")>> ELSE <<>>)

ParseReturns ==
    /\ ctl.pc = "parsing"
    /\ \E warning \in BOOLEAN :
        /\ files' = ParsedFiles(files)
        /\ job' = ParsedJob(job, warning)
        /\ events' = ParsedEvents(events, warning)
    /\ rt' = NewRuntime(PageIndex)
    /\ ctl' = IF max_attempts >= 1
              THEN [ctl EXCEPT !.pc = "agent_run", !.attempt = 1]
              ELSE \* range(1, max_attempts + 1) is empty: no run, no final report
                   [ctl EXCEPT !.pc = "exception"]
    /\ UNCHANGED <<settings, result, calls>>

\* The forced final-write loop reaches its next choice (1 = the named tool,
\* 2 = 'required') without a final report, or runs out of choices.
NextForcedChoice(j, ev, choice) ==
    IF choice <= 2
    THEN /\ job' = j
         /\ events' = ev
         /\ ctl' = [ctl EXCEPT !.pc = "forced_run", !.forced_choice = choice]
         /\ files' = files
    ELSE \* 'Agent finished without successful review_final_markdown_write'
         /\ job' = j
         /\ events' = ev
         /\ ctl' = [ctl EXCEPT !.pc = "exception"]
         /\ files' = files

\* The agent run returned: usage consumed, then the rest of the iteration.
AgentRunReturns ==
    /\ ctl.pc = "agent_run"
    /\ LET j == sync_state_usage(job, rt)
       IN IF rt.final_markdown_text # <<>>
          THEN \E render_ok \in BOOLEAN : ExportAndComplete(j, events, render_ok)
          ELSE IF ctl.attempt >= max_attempts
          THEN NextForcedChoice(j, events \o <<Event("agent_run_incomplete"),
                                                Event("agent_forced_final_write_start")>>, 1)
          ELSE /\ job' = set_status_job(j, "agent_running", "Resuming review runtime")
               /\ events' = set_status_events(Append(events, Event("agent_run_incomplete")),
                                              "agent_running")
               /\ ctl' = [ctl EXCEPT !.attempt = @ + 1]
               /\ files' = files
    /\ UNCHANGED <<settings, rt, result, calls>>

\* Fault variant: the exception of the agent run propagates whatever was committed.
AgentRunRaisesPropagates ==
    /\ ctl.pc = "agent_run"
    /\ ctl' = [ctl EXCEPT !.pc = "exception"]
    /\ UNCHANGED <<job, files, events>>
    /\ UNCHANGED <<settings, rt, result, calls>>

\* Fault variant: an agent run that raised without a final report is followed by
\* the next attempt while attempts remain.
AgentRunRaisesAndResumes ==
    /\ ctl.pc = "agent_run"
    /\ IF rt.final_markdown_text # <<>>
       THEN \E render_ok \in BOOLEAN :
                ExportAndComplete(job,
                    events \o <<Event("agent_run_post_final_exception_ignored"),
                                Event("agent_run_terminated_after_final_write")>>, render_ok)
       ELSE /\ ctl' = IF ctl.attempt < max_attempts
                      THEN [ctl EXCEPT !.attempt = @ + 1]
                      ELSE [ctl EXCEPT !.pc = "exception"]
            /\ UNCHANGED <<job, files, events>>
    /\ UNCHANGED <<settings, rt, result, calls>>

\* The agent run raised: ignored once a final report is persisted, else propagated.
AgentRunRaises ==
    /\ ctl.pc = "agent_run"
    /\ IF rt.final_markdown_text # <<>>
       THEN \E render_ok \in BOOLEAN :
                ExportAndComplete(job,
                    events \o <<Event("agent_run_post_final_exception_ignored"),
                                Event("agent_run_terminated_after_final_write")>>, render_ok)
       ELSE /\ ctl' = [ctl EXCEPT !.pc = "exception"]
            /\ UNCHANGED <<job, files, events>>
    /\ UNCHANGED <<settings, rt, result, calls>>

\* The 0.5 s watcher sees the final report while the run is still going: it
\* cancels the run, awaits it (the run may raise while being cancelled) and leaves.
WatcherCancels ==
    /\ ctl.pc = "agent_run"
    /\ rt.final_markdown_text # <<>>
    /\ \E raised \in BOOLEAN, render_ok \in BOOLEAN :
        ExportAndComplete(job,
            events \o <<Event("agent_run_cancelled_after_final_write")>>
                   \o (IF raised THEN <<Event("agent_run_cancel_post_final_exception_ignored")>>
                       ELSE <<>>)
                   \o <<Event("agent_run_terminated_after_final_write")>>,
            render_ok)
    /\ UNCHANGED <<settings, rt, result, calls>>

\* A forced final-write run returned.
ForcedRunReturns ==
    /\ ctl.pc = "forced_run"
    /\ LET j == sync_state_usage(job, rt)
           ev == Append(events, Event("agent_forced_final_write_result"))
       IN IF rt.final_markdown_text # <<>>
          THEN \E render_ok \in BOOLEAN : ExportAndComplete(j, ev, render_ok)
          ELSE NextForcedChoice(j, ev, ctl.forced_choice + 1)
    /\ UNCHANGED <<settings, rt, result, calls>>

\* A forced final-write run raised.
ForcedRunRaises ==
    /\ ctl.pc = "forced_run"
    /\ IF rt.final_markdown_text # <<>>
       THEN \E render_ok \in BOOLEAN :
                ExportAndComplete(job,
                    Append(events,
                           Event("agent_forced_final_write_post_success_exception_ignored")),
                    render_ok)
       ELSE NextForcedChoice(job, Append(events, Event("agent_forced_final_write_error")),
                             ctl.forced_choice + 1)
    /\ UNCHANGED <<settings, rt, result, calls>>

\* Fault variant: any existing final markdown counts as persisted.
has_persist_marker_any(j) == TRUE

\* _complete_with_existing_final_report's persist marker
has_persist_marker(j) ==
    j.final_report_ready \/ j.artifacts.final_markdown_path \/ j.metadata.final_report_source

\* Fault variant: run_job's except branch without the recovery path.
FailOnPipelineException ==
    /\ ctl.pc = "exception"
    /\ job' = fail_job_job(job)
    /\ events' = fail_job_events(Append(events, Event("pipeline_exception")))
    /\ ctl' = [ctl EXCEPT !.pc = "done"]
    /\ UNCHANGED <<settings, rt, files, result, calls>>

\* Fault variant: the export error is dropped and the job reads as a clean recovery.
apply_completed_dropping_error(j, pdf_exists, pdf_error) ==
    [j EXCEPT !.status = "completed",
              !.final_report_ready = TRUE,
              !.pdf_ready = pdf_exists,
              !.artifacts.final_markdown_path = TRUE,
              !.artifacts.report_pdf_path = pdf_exists,
              !.error = None,
              !.message = "Review pipeline completed via recovery after post-write exception.",
              !.metadata.post_exception_recovery = TRUE]

\* apply_completed of _complete_with_existing_final_report: the job record of a
\* recovered job; pdf_exists is report_pdf_path.exists() after the export was
\* tried, pdf_error whether the export raised.
apply_completed(j, pdf_exists, pdf_error) ==
    [j EXCEPT !.status = "completed",
              !.final_report_ready = TRUE,
              !.pdf_ready = pdf_exists,
              !.artifacts.final_markdown_path = TRUE,
              !.artifacts.report_pdf_path = pdf_exists,
              !.error = IF pdf_error THEN "pdf_error" ELSE None,
              !.message = IF pdf_error
                          THEN "Final report persisted, but PDF export failed during recovery."
                          ELSE "Review pipeline completed via recovery after post-write exception.",
              !.metadata.post_exception_recovery = TRUE,
              !.metadata.pdf_export_recovery_error = IF pdf_error THEN TRUE ELSE @]

\* Fault variant: the recovery completes the job without looking for final_report.md.
RecoverWithoutFinalReport ==
    /\ ctl.pc = "exception"
    /\ job' = apply_completed(job, files.report_pdf, FALSE)
    /\ events' = events \o <<Event("pipeline_exception"), Event("completed_recovered")>>
    /\ ctl' = [ctl EXCEPT !.pc = "done"]
    /\ UNCHANGED <<settings, rt, files, result, calls>>

\* run_job's except branch: 'pipeline_exception', then recovery or fail_job.
HandlePipelineException ==
    /\ ctl.pc = "exception"
    /\ LET ev == Append(events, Event("pipeline_exception"))
       IN IF files.final_markdown = NoFile
          THEN /\ job' = fail_job_job(job)
               /\ events' = fail_job_events(ev)
               /\ files' = files
          ELSE IF ~has_persist_marker(job)
          THEN /\ job' = fail_job_job(job)
               /\ events' = fail_job_events(Append(ev, Event("completed_recovery_skipped")))
               /\ files' = files
          ELSE \E render_ok \in BOOLEAN :
                /\ files' = IF files.report_pdf THEN files
                            ELSE IF render_ok THEN RenderedFiles(files) ELSE files
                /\ job' = apply_completed(job, files.report_pdf \/ render_ok,
                                          ~files.report_pdf /\ ~render_ok)
                /\ events' = ev \o (IF ~files.report_pdf /\ render_ok
                                    THEN <<Event("pdf_export_rendered")>> ELSE <<>>)
                                \o <<Event("completed_recovered")>>
    /\ ctl' = [ctl EXCEPT !.pc = "done"]
    /\ UNCHANGED <<settings, rt, result, calls>>

\* ------------------------------------------------------ crash and re-run

\* No live runtime: before run_job_async builds one, and after the worker died.
NoRuntime == NewRuntime(<<>>)

NoResult == [tool |-> None, status |-> None, reason |-> None]

\* Fault variant: the job record is written before final_report.md (the file
\* only exists from the third durable step on).
FilesAfterCommitStepsRecordFirst(f, plan, k) ==
    IF k >= 3 THEN [f EXCEPT !.final_markdown = plan.markdown] ELSE f

\* The job directory after the first k durable steps of a commit: the atomic write
\* of final_report.md is the first of them (set_final_markdown).
FilesAfterCommitSteps(f, plan, k) == [f EXCEPT !.final_markdown = plan.markdown]

\* The worker process dies inside a committing review_final_markdown_write, after
\* the first k of its durable writes: (1) final_report.md, (2) the job record's
\* final_report_ready / final_markdown_path, (3) the usage sync, (4) the
\* 'final_report_persisted' event, (5) the closing metadata.  The runtime is lost.
CrashInCommit ==
    /\ AgentTaskRunning
    /\ \E a \in FinalWriteInputs, k \in 1..5 :
       \E plan \in {FinalWritePlan(record_tool(rt, "review_final_markdown_write"), a)} :
        LET r2 == RuntimeAfterPlan(record_tool(rt, "review_final_markdown_write"), plan)
            j2 == set_final_markdown(job, r2)
            j3 == sync_state_usage(j2, r2)
            j5 == record_final_report_metadata(j3, plan)
            skipped == IF plan.validation_ok THEN <<>>
                       ELSE <<Event("final_report_validation_skipped")>>
        IN /\ plan.kind = "commit"
           /\ files' = FilesAfterCommitSteps(files, plan, k)
           /\ job' = CASE k = 1 -> job
                       [] k = 2 -> j2
                       [] k \in {3, 4} -> j3
                       [] OTHER -> j5
           /\ events' = events \o skipped
                               \o (IF k >= 4 THEN <<Event("final_report_persisted")>> ELSE <<>>)
    /\ rt' = NoRuntime
    /\ result' = NoResult
    /\ calls' = calls + 1
    /\ ctl' = [ctl EXCEPT !.pc = "crashed"]
    /\ UNCHANGED settings

\* ------------------------------------------------------------ the system

\* A Settings snapshot (config.py); the thresholds are scaled down from the
\* defaults (3, 3, 3, 10) to what a short run can meet.
SettingsOf(gates, min_annotate, min_annotations, resume_attempts) ==
    [enable_final_gates |-> gates,
     min_paper_search_calls_for_pdf_annotate |-> min_annotate,
     min_paper_search_calls_for_final |-> 1,
     min_distinct_paper_queries_for_final |-> 1,
     min_annotations_for_final |-> min_annotations,
     min_english_words_for_final |-> 0,
     min_chinese_chars_for_final |-> 0,
     force_english_output |-> TRUE,
     agent_resume_attempts |-> resume_attempts]

\* The snapshots a whole job is run with.
SettingsChoices == {SettingsOf(g, 1, 1, ra) : g \in BOOLEAN, ra \in {1, 3}}

\* The snapshots the tool layer is run with.
ToolSettingsChoices ==
    {SettingsOf(FALSE, 1, 1, 1)} \cup {SettingsOf(TRUE, ma, 1, 1) : ma \in {1, 2}}

\* main._create_job followed by _spawn_worker: a queued job with its source PDF
\* and the 'created' event, the worker about to enter run_job.
Init ==
    /\ settings \in SettingsChoices
    /\ ctl = [pc |-> "spawned", attempt |-> 0, forced_choice |-> 0, budget |-> MaxJobToolCalls,
             suspended |-> <<>>]
    /\ rt = NoRuntime
    /\ job = NewJob
    /\ files = NewFiles
    /\ events = <<Event("created")>>
    /\ result = NoResult
    /\ calls = 0

\* The tool layer on its own: the state StartRun and ParseReturns (no parse
\* warning) lead to, the first agent run about to issue its first call.
InitTools ==
    /\ settings \in ToolSettingsChoices
    /\ ctl = [pc |-> "agent_run", attempt |-> 1, forced_choice |-> 0, budget |-> MaxToolCalls,
             suspended |-> <<>>]
    /\ rt = NewRuntime(PageIndex)
    /\ job = ParsedJob(StartedJob(NewJob), FALSE)
    /\ files = ParsedFiles(NewFiles)
    /\ events = ParsedEvents(StartedEvents(<<Event("created")>>), FALSE)
    /\ result = NoResult
    /\ calls = 0

Tools ==
    \/ mcp_status_update
    \/ pdf_search
    \/ pdf_read_lines
    \/ pdf_jump
    \/ pdf_annotate
    \/ paper_search
    \/ read_paper
    \/ question_prompt
    \/ review_final_markdown_write

Next ==
    \/ StartRun
    \/ ParseRaises
    \/ ParseReturns
    \/ Tools
    \/ AgentRunReturns
    \/ AgentRunRaises
    \/ WatcherCancels
    \/ ForcedRunReturns
    \/ ForcedRunRaises
    \/ HandlePipelineException
    \/ CrashInCommit

\* A whole job: the controller, the tools and the worker's death in a commit.
Spec == Init /\ [][Next]_vars

\* One runtime's tool calls.
SpecTools == InitTools /\ [][Tools]_vars

\* A whole job whose worker is started and whose awaits end: parse_pdf and every
\* agent run return or raise, and the straight-line code after them runs.
FairSpec ==
    /\ Spec
    /\ WF_vars(StartRun)
    /\ WF_vars(ParseReturns \/ ParseRaises)
    /\ WF_vars(AgentRunReturns \/ AgentRunRaises)
    /\ WF_vars(ForcedRunReturns \/ ForcedRunRaises)
    /\ WF_vars(HandlePipelineException)


\* ------------------------------------------------- tool calls and awaits

\* Tool calls explored when the awaits of paper_search and read_paper are steps.
MaxAwaitCalls == 2

RemoveAt(s, i) == SubSeq(s, 1, i - 1) \o SubSeq(s, i + 1, Len(s))

\* A tool call that has reached its await and is suspended there.
SuspendedCall(tool, query) == [tool |-> tool, query |-> query]

\* paper_search runs to 'await rt.paper_adapter.search(...)' and yields.
PaperSearchSuspends ==
    /\ AgentTaskRunning
    /\ \E query \in PaperSearchQueries :
        /\ rt' = PaperSearchBeforeAwait(rt, query, <<>>)
        /\ ctl' = [ctl EXCEPT !.suspended = Append(@, SuspendedCall("paper_search", query))]
    /\ calls' = calls + 1
    /\ UNCHANGED <<settings, job, files, events, result>>

\* What a resumed call does last: flush usage to job.json, log, return.
ToolResumeReturn(r, payload, new_events, i) ==
    /\ rt' = r
    /\ job' = sync_state_usage(job, r)
    /\ events' = events \o new_events
    /\ result' = payload
    /\ ctl' = [ctl EXCEPT !.suspended = RemoveAt(@, i)]
    /\ UNCHANGED <<settings, files, calls>>

\* The adapter's search returns or raises: the suspended paper_search runs to its end.
PaperSearchResumes ==
    \E i \in DOMAIN ctl.suspended, outcome \in AdapterSearchOutcomes :
        /\ ctl.suspended[i].tool = "paper_search"
        /\ \E r2 \in {PaperSearchAfterAwait(rt, outcome)} :
              ToolResumeReturn(r2, PaperSearchPayload(r2, outcome),
                               <<Event("paper_search_called")>>, i)

\* read_paper with rows runs to 'await rt.paper_adapter.read_papers(...)' and yields.
ReadPaperSuspends ==
    /\ AgentTaskRunning
    /\ rt' = record_tool(rt, "read_paper")
    /\ ctl' = [ctl EXCEPT !.suspended = Append(@, SuspendedCall("read_paper", <<>>))]
    /\ calls' = calls + 1
    /\ UNCHANGED <<settings, job, files, events, result>>

\* The adapter's read_papers returns: the suspended read_paper runs to its end.
ReadPaperResumes ==
    \E i \in DOMAIN ctl.suspended, outcome \in AdapterReadOutcomes :
        /\ ctl.suspended[i].tool = "read_paper"
        /\ IF outcome.raised
           THEN /\ result' = RaisedToFramework("read_paper")
                /\ ctl' = [ctl EXCEPT !.suspended = RemoveAt(@, i)]
                /\ UNCHANGED <<settings, rt, job, files, events, calls>>
           ELSE ToolResumeReturn(rt, ReadPaperPayload(outcome),
                                 <<Event("read_paper_called")>>, i)

\* The tool handlers as coroutines: the agent framework is handed the nine
\* handlers (Agent(tools=...), Runner.run) and awaits them; nothing in the handlers
\* or in the runtime keeps one from being started while another is suspended.
AwaitTools ==
    \/ PaperSearchSuspends
    \/ PaperSearchResumes
    \/ ReadPaperSuspends
    \/ ReadPaperResumes
    \/ mcp_status_update
    \/ pdf_search
    \/ pdf_read_lines
    \/ pdf_jump
    \/ pdf_annotate
    \/ question_prompt
    \/ review_final_markdown_write

InitAwait ==
    /\ settings \in ToolSettingsChoices
    /\ ctl = [pc |-> "agent_run", attempt |-> 1, forced_choice |-> 0, budget |-> MaxAwaitCalls,
              suspended |-> <<>>]
    /\ rt = NewRuntime(PageIndex)
    /\ job = ParsedJob(StartedJob(NewJob), FALSE)
    /\ files = ParsedFiles(NewFiles)
    /\ events = ParsedEvents(StartedEvents(<<Event("created")>>), FALSE)
    /\ result = NoResult
    /\ calls = 0

\* One runtime's tool calls, with the awaits inside paper_search and read_paper.
SpecAwait == InitAwait /\ [][AwaitTools]_vars

\* ------------------------------------------------------------ properties

FinalWriteTool == "review_final_markdown_write"

\* The step is one call of the named tool.
IsCallOf(name) == rt'.tool_counts[name] = rt.tool_counts[name] + 1

\* C1: over any sequence of tool calls on one runtime, the event log holds at
\* most one final_report_persisted event.
C1_AtMostOnePersistedEvent ==
    CountOf(events, Event("final_report_persisted")) <= 1

\* A commit followed by two more calls of the write tool, the last one ignored.
C1_Witness ==
    /\ CountOf(events, Event("final_report_persisted")) = 1
    /\ rt.tool_counts[FinalWriteTool] = 3
    /\ result.tool = FinalWriteTool
    /\ result.message = "Final report is already persisted."

\* C2: a review_final_markdown_write call made once final_markdown_text is
\* non-empty returns ok / task_completed / final_report_persisted and leaves the
\* final-markdown file, final_markdown_text, the draft and its version unchanged.
C2_WriteAfterCommitIgnored ==
    [][(rt.final_markdown_text # <<>> /\ IsCallOf(FinalWriteTool))
        => /\ result'.status = "ok"
           /\ result'.task_completed
           /\ result'.final_report_persisted
           /\ files'.final_markdown = files.final_markdown
           /\ rt'.final_markdown_text = rt.final_markdown_text
           /\ rt'.final_report_draft_sections = rt.final_report_draft_sections
           /\ rt'.final_report_draft_version = rt.final_report_draft_version]_vars

\* A call after the commit has returned, the report on disk being the committed one.
C2_Witness ==
    /\ result.tool = FinalWriteTool
    /\ result.message = "Final report is already persisted."
    /\ result.status = "ok"
    /\ files.final_markdown = rt.final_markdown_text
    /\ rt.final_markdown_text # <<>>


\* C3: once final_report_ready is true in the job record, no step of the job (tool
\* call, status change, completion, fail_job, recovery, a re-run) writes a record
\* in which it is false.
C3_FinalReportReadyLatched ==
    [][job.final_report_ready => job'.final_report_ready]_vars

\* A later run has changed the status of a record whose latch was already set.
C3_Witness ==
    /\ job.final_report_ready
    /\ job.status = "pdf_parsing"

\* The number of events named `name` among the first n events of the log.
EventsBefore(name, n) ==
    Cardinality({j \in 1..n : events[j].event = name})

\* C4: with gate enforcement on, every annotation pdf_annotate has persisted is
\* preceded in the event log by at least min_paper_search_calls_for_pdf_annotate
\* paper_search_called events.
C4_AnnotationsFollowPaperSearch ==
    settings.enable_final_gates =>
        /\ Len(rt.annotations) = CountOf(events, Event("annotation_created"))
        /\ files.annotations # NoFile => files.annotations = rt.annotations
        /\ \A i \in DOMAIN events :
              events[i].event = "annotation_created" =>
                  EventsBefore("paper_search_called", i - 1)
                      >= settings.min_paper_search_calls_for_pdf_annotate

\* Gates on, two searches required, and an annotation has been persisted.
C4_Witness ==
    /\ settings.enable_final_gates
    /\ settings.min_paper_search_calls_for_pdf_annotate = 2
    /\ files.annotations # NoFile
    /\ CountOf(events, Event("annotation_created")) = 1

\* C5: with enable_final_gates false, pdf_annotate never returns
\* reason = paper_search_calls_not_met.
C5_NoAnnotateGateWhenGatesOff ==
    ~settings.enable_final_gates =>
        ~(result.tool = "pdf_annotate" /\ result.reason = "paper_search_calls_not_met")


\* Every required section has content in the draft.
DraftComplete(sections) == \A id \in SectionIds : sections[id] # <<>>

\* The step is a review_final_markdown_write call made before any commit.
IsWriteBeforeCommit == IsCallOf(FinalWriteTool) /\ rt.final_markdown_text = <<>>

\* The step commits: the runtime holds the final markdown after it.
CommitsNow == IsWriteBeforeCommit /\ rt'.final_markdown_text # <<>>

\* The reasons review_final_markdown_write rejects a call's input with.
InputErrorReasons ==
    {"section_id_invalid", "section_content_required", "section_payload_required"}

\* What a call returns and does when it saves a draft that is still incomplete.
SavedAsPartial ==
    /\ result'.status = "partial"
    /\ result'.reason = "required_sections_missing"
    /\ files'.final_markdown = files.final_markdown
    /\ rt'.final_markdown_text = <<>>
    /\ events' = Append(events, Event("final_report_draft_saved"))

\* C6 as stated: a commit happens only with all eleven sections in the merged
\* draft, and every call that leaves a required section missing returns
\* partial / required_sections_missing, writes no final markdown and emits
\* final_report_draft_saved and no final_report_persisted.
C6_MissingSectionAlwaysPartial ==
    [][/\ CommitsNow => DraftComplete(rt'.final_report_draft_sections)
       /\ (IsWriteBeforeCommit /\ ~DraftComplete(rt'.final_report_draft_sections))
            => SavedAsPartial]_vars

\* C6, amended: the same, for every call that leaves a required section missing
\* and is not rejected for its input (section_id_invalid, section_content_required,
\* section_payload_required); a rejected call returns status=error, stores nothing
\* and emits final_report_write_failed.
C6_MissingSectionPartialUnlessRejected ==
    [][/\ CommitsNow => DraftComplete(rt'.final_report_draft_sections)
       /\ (IsWriteBeforeCommit /\ ~DraftComplete(rt'.final_report_draft_sections))
            => IF result'.reason \in InputErrorReasons
               THEN /\ result'.status = "error"
                    /\ rt'.final_report_draft_sections = rt.final_report_draft_sections
                    /\ rt'.final_report_draft_version = rt.final_report_draft_version
                    /\ files'.final_markdown = files.final_markdown
                    /\ events' = Append(events, Event("final_report_write_failed"))
               ELSE SavedAsPartial]_vars

\* A draft was saved as partial by one call and committed, complete, by a later one.
C6_Witness ==
    /\ CountOf(events, Event("final_report_draft_saved")) >= 1
    /\ CountOf(events, Event("final_report_persisted")) = 1
    /\ DraftComplete(rt.final_report_draft_sections)
    /\ files.final_markdown # NoFile
    /\ result.message = "Final report persisted successfully."

\* The commit-time gate reasons whose threshold runtime r does not meet.
UnmetGateReasons(r) ==
    (IF r.paper_search_usage.total_calls < settings.min_paper_search_calls_for_final
     THEN {"paper_search_calls_not_met"} ELSE {})
    \cup (IF r.paper_search_usage.distinct_queries
                < settings.min_distinct_paper_queries_for_final
          THEN {"paper_search_distinct_queries_not_met"} ELSE {})
    \cup (IF Len(r.annotations) < settings.min_annotations_for_final
          THEN {"annotation_count_not_met"} ELSE {})

\* C7: with gate enforcement on, a call commits only if total paper-search calls,
\* distinct queries and annotation count reach their thresholds; a call that
\* passes the input checks with a complete draft while a threshold is unmet
\* returns status=error with the reason of an unmet threshold and writes no
\* final markdown.
C7_CommitOnlyWithGatesMet ==
    [][settings.enable_final_gates =>
        /\ CommitsNow => UnmetGateReasons(rt) = {}
        /\ (/\ IsWriteBeforeCommit
            /\ DraftComplete(rt'.final_report_draft_sections)
            /\ result'.reason \notin InputErrorReasons
            /\ UnmetGateReasons(rt) # {})
             => /\ result'.status = "error"
                /\ result'.reason \in UnmetGateReasons(rt)
                /\ rt'.final_markdown_text = <<>>
                /\ files'.final_markdown = files.final_markdown
                /\ CountOf(events', Event("final_report_persisted")) = 0]_vars

\* Gates on, and a call has committed with the thresholds met.
C7_Witness ==
    /\ settings.enable_final_gates
    /\ result.tool = FinalWriteTool
    /\ result.message = "Final report persisted successfully."
    /\ rt.paper_search_usage.total_calls >= settings.min_paper_search_calls_for_final
    /\ Len(rt.annotations) >= settings.min_annotations_for_final
    /\ files.final_markdown = rt.final_markdown_text


\* A persist marker in job record j: final_report_ready, a recorded final markdown
\* path, or metadata final_report_source.
PersistMarkerSet(j) ==
    j.final_report_ready \/ j.artifacts.final_markdown_path \/ j.metadata.final_report_source

\* A final commit has occurred: the file is written and a persist marker is set.
CommitOccurred == files.final_markdown # NoFile /\ PersistMarkerSet(job)

\* An exception has propagated out of run_job_async and run_job is about to handle it.
ExceptionPropagated == ctl.pc = "exception"

\* C8: when an exception propagates after a final commit (file written and a
\* persist marker set), run_job ends with status completed and metadata
\* post_exception_recovery = true; a committed job never ends failed.
C8_CommittedJobRecovers ==
    [][/\ (ExceptionPropagated /\ CommitOccurred)
            => /\ ctl'.pc = "done"
               /\ job'.status = "completed"
               /\ job'.metadata.post_exception_recovery
       /\ (CommitOccurred /\ ctl'.pc = "done") => job'.status # "failed"]_vars

\* A job that committed, met an exception and was completed by the recovery path.
C8_Witness ==
    /\ ctl.pc = "done"
    /\ job.status = "completed"
    /\ job.metadata.post_exception_recovery
    /\ CountOf(events, Event("final_report_persisted")) = 1
    /\ CountOf(events, Event("pipeline_exception")) = 1
    /\ CountOf(events, Event("completed_recovered")) = 1

\* Event `first` is in the log after position n, and event `second` after it.
LoggedInOrderAfter(log, n, first, second) ==
    \E i \in (n + 1)..Len(log) : \E j \in (i + 1)..Len(log) :
        log[i].event = first /\ log[j].event = second

\* C9: when an exception propagates and the final markdown file is absent, or
\* exists without any persist marker, the job ends failed; in the
\* file-without-marker case completed_recovery_skipped is logged before the failure.
C9_UncommittedJobFails ==
    [][(ExceptionPropagated /\ ~CommitOccurred)
        => /\ ctl'.pc = "done"
           /\ job'.status = "failed"
           /\ events'[Len(events')].event = "failed"
           /\ files.final_markdown # NoFile
                => LoggedInOrderAfter(events', Len(events),
                                      "completed_recovery_skipped", "failed")]_vars

\* A job failed although final_report.md is on disk: no persist marker, recovery skipped.
C9_Witness ==
    /\ ctl.pc = "done"
    /\ job.status = "failed"
    /\ files.final_markdown # NoFile
    /\ ~PersistMarkerSet(job)
    /\ CountOf(events, Event("completed_recovery_skipped")) = 1

TerminalEvents == {"completed", "completed_recovered", "failed"}

\* The events logged since the current run of run_job started.
CurrentRunEvents ==
    LET starts == {i \in DOMAIN events : events[i].event = "llm_api_mode_selected"}
        first == IF starts = {} THEN 1 ELSE CHOOSE i \in starts : \A k \in starts : k <= i
    IN SubSeq(events, first, Len(events))

\* C10: run_job terminates (its awaits returning or raising), and when it has, the
\* job's status is completed or failed and the run has logged a terminal event
\* (completed, completed_recovered or failed).
C10_RunJobTerminates ==
    /\ [](ctl.pc = "done"
            => /\ job.status \in {"completed", "failed"}
               /\ \E i \in DOMAIN CurrentRunEvents :
                     CurrentRunEvents[i].event \in TerminalEvents)
    /\ <>(ctl.pc \in {"done", "crashed"})

\* A run that went through both forced final-write runs and ended failed.
C10_Witness ==
    /\ ctl.pc = "done"
    /\ job.status = "failed"
    /\ CountOf(events, Event("agent_forced_final_write_result")) = 2
    /\ events[Len(events)].event = "failed"

\* ---------------------------------------------------------------- C11

\* JobStatus in the order of the state graph; failed is outside the order.
StatusRank ==
    [queued |-> 0, pdf_uploading_to_mineru |-> 1, pdf_parsing |-> 2, agent_running |-> 3,
     final_report_persisting |-> 4, pdf_exporting |-> 5, completed |-> 6]

TerminalStatuses == {"completed", "failed"}

StatusMovesForward ==
    /\ job.status \in TerminalStatuses => job'.status = job.status
    /\ job'.status # job.status =>
          \/ job'.status = "failed"
          \/ StatusRank[job'.status] > StatusRank[job.status]

\* C11: every step leaves the status where it is, moves it forward along
\* queued -> pdf_uploading -> pdf_parsing -> agent_running -> pdf_exporting ->
\* completed, or moves it from a non-terminal status to failed; a terminal status
\* is never left.
C11_StatusOnlyMovesForward == [][StatusMovesForward]_vars

\* The same within one run of the worker: the steps other than the start of a run.
C11_StatusMovesForwardWithinRun == [][StartRun \/ StatusMovesForward]_vars

\* ---------------------------------------------------------------- C12

PersistedEventLogged == \E i \in 1..Len(events) : events[i].event = "final_report_persisted"

\* C12: in every reachable state, a crash inside a commit included,
\* final_report_ready implies that final_report.md exists; while the committing
\* runtime lives the file holds the markdown assembled from its draft; and a
\* final_report_persisted event implies final_report_ready.
C12_ReadyImpliesReportWritten ==
    /\ job.final_report_ready => files.final_markdown # NoFile
    /\ rt.final_markdown_text # <<>> =>
          /\ files.final_markdown = rt.final_markdown_text
          /\ rt.final_markdown_text
               = build_final_report_markdown_from_sections(rt.final_report_draft_sections)
          /\ job.final_report_ready
    /\ PersistedEventLogged => job.final_report_ready

\* The worker died after the file write and the job-record write of a commit, before
\* the event: ready, file in place, no final_report_persisted yet.
C12_Witness ==
    /\ ctl.pc = "crashed"
    /\ job.final_report_ready
    /\ files.final_markdown = FullMarkdown
    /\ ~PersistedEventLogged

\* ---------------------------------------------------------------- C13

\* The artifact paths of the job record other than annotations_path, each with
\* its file in place.
OtherStoredPathsExist ==
    /\ job.artifacts.source_pdf_path => files.source_pdf
    /\ job.artifacts.mineru_markdown_path => files.mineru_markdown
    /\ job.artifacts.mineru_content_list_path => files.mineru_content_list
    /\ job.artifacts.final_markdown_path => files.final_markdown # NoFile
    /\ job.artifacts.report_pdf_path => files.report_pdf
    /\ job.artifacts.prompt_snapshot_path => files.prompt_snapshot

\* C13: every artifact path stored in the job record names a file that exists.
C13_StoredPathsExist ==
    /\ OtherStoredPathsExist
    /\ job.artifacts.annotations_path => files.annotations # NoFile

\* The same for the six paths other than annotations_path.
C13_OtherStoredPathsExist == OtherStoredPathsExist

\* ---------------------------------------------------------------- C14

\* The status stored in job.json has its event in the log.
StatusEventLogged ==
    \/ job.status = "queued"
    \/ \E i \in 1..Len(events) :
          \/ events[i] = StatusEvent("status", job.status)
          \/ job.status = "failed" /\ events[i].event = "failed"
          \/ job.status = "completed" /\ events[i].event \in {"completed", "completed_recovered"}

\* C14: whatever is durable has its event: the status stored in job.json was
\* logged, and a job record that says the final report is ready comes with a
\* final_report_persisted event, also when the worker dies inside a commit.
C14_DurableOutcomeHasEvent ==
    /\ StatusEventLogged
    /\ job.final_report_ready => PersistedEventLogged

\* Every tool call that returns status ok appends at least one event.
C14_SuccessfulToolCallLogsEvent ==
    [][(calls' = calls + 1 /\ result'.status = "ok") => Len(events') > Len(events)]_vars

\* ---------------------------------------------------------------- C15

\* C15: the mutations of two tool calls never interleave: while a call is
\* suspended at its await, the next step touching the runtime is that call's own
\* resumption, and no other call starts, runs or resumes in between.
C15_ToolCallsDoNotInterleave ==
    [][ctl.suspended # <<>> => (ctl'.suspended = <<>> /\ calls' = calls)]_vars

\* ---------------------------------------------------------------- C16

\* job.json holds what the runtime holds: per-tool counters, paper-search usage
\* and the number of annotations (the signature set is never written to job.json).
RuntimeFlushed ==
    /\ job.usage.tool = rt.tool_counts
    /\ job.usage.paper_search = rt.paper_search_usage
    /\ job.annotation_count = Len(rt.annotations)

\* C16: at every suspension point of a tool call the runtime's counters, usage
\* and annotations agree with job.json.
C16_FlushedAtSuspensionPoints == ctl.suspended # <<>> => RuntimeFlushed

\* With no call suspended, and the last call not ended by an exception, the
\* runtime is flushed.
C16_FlushedBetweenCalls ==
    (ctl.suspended = <<>> /\ "raised" \notin DOMAIN result) => RuntimeFlushed

\* ---------------------------------------------------------------- C17

\* ---- the state file: storage.write_json_atomic seen by readers of job.json
\* Under this specification `files` is the job directory's state file and its
\* temp file, `ctl` the writer's position, `calls` the number of writes begun and
\* `result` what the last reader got.

MaxWrites == 3

\* The payloads update_job_state / mutate_job_state / save_job_state hand over.
StatePayloads == {"queued", "agent_running", "completed"}

JSONDecodeError == "JSONDecodeError"

\* json.dumps(payload): the text, as the chunks the OS may write one by one.
JsonDumps(payload) == <<"{", payload, "}">>

\* storage.read_json: json.loads of the file's text; a cut-off text does not parse.
ReadJson(text) ==
    IF Len(text) = 3 /\ text[1] = "{" /\ text[3] = "}" THEN text[2] ELSE JSONDecodeError

\* Fault variant: the text is written over job.json itself.
OpenTarget(f) == [f EXCEPT !.job_json = <<>>]

\* tmp.write_text opens job.json.tmp, creating or truncating it.
OpenTmp(f) == [f EXCEPT !.tmp_exists = TRUE, !.tmp = <<>>]

\* write_json_atomic up to the opening of the temp file (under _STATE_LOCK: one
\* writer at a time).
WriteTmpOpens ==
    /\ ctl.pc = "idle"
    /\ calls < MaxWrites
    /\ \E payload \in StatePayloads :
        ctl' = [pc |-> "tmp_writing", payload |-> payload]
    /\ files' = OpenTmp(files)
    /\ calls' = calls + 1
    /\ UNCHANGED <<settings, rt, job, events, result>>

\* One more chunk of the text reaches job.json.tmp.
WriteTmpChunk ==
    /\ ctl.pc = "tmp_writing"
    /\ Len(files.tmp) < Len(JsonDumps(ctl.payload))
    /\ files' = [files EXCEPT !.tmp = Append(@, JsonDumps(ctl.payload)[Len(@) + 1])]
    /\ UNCHANGED <<settings, ctl, rt, job, events, result, calls>>

\* tmp.replace(path): the rename puts the whole text in place of job.json.
ReplaceTmp ==
    /\ ctl.pc = "tmp_writing"
    /\ files.tmp = JsonDumps(ctl.payload)
    /\ files' = [job_json |-> files.tmp, tmp_exists |-> FALSE, tmp |-> <<>>]
    /\ ctl' = [pc |-> "idle", payload |-> None]
    /\ UNCHANGED <<settings, rt, job, events, result, calls>>

\* The writing process dies before the rename; whatever is in the temp file
\* stays, and a later worker writes again.
CrashBeforeRename ==
    /\ ctl.pc = "tmp_writing"
    /\ ctl' = [pc |-> "idle", payload |-> None]
    /\ UNCHANGED <<settings, rt, job, files, events, result, calls>>

\* state.load_job_state in any process (status, watch, submit's polling, the
\* worker itself): read_json of job.json, at any moment.
ReadState ==
    /\ result' = ReadJson(files.job_json)
    /\ UNCHANGED <<settings, ctl, rt, job, files, events, calls>>

StorageSteps ==
    \/ WriteTmpOpens
    \/ WriteTmpChunk
    \/ ReplaceTmp
    \/ CrashBeforeRename
    \/ ReadState

\* main._create_job has written job.json; nobody has read it yet.
InitStorage ==
    /\ settings \in {SettingsOf(FALSE, 1, 1, 1)}
    /\ ctl = [pc |-> "idle", payload |-> None]
    /\ rt = NoRuntime
    /\ job = NewJob
    /\ files = [job_json |-> JsonDumps("queued"), tmp_exists |-> FALSE, tmp |-> <<>>]
    /\ events = <<Event("created")>>
    /\ result = "unread"
    /\ calls = 0

SpecStorage == InitStorage /\ [][StorageSteps]_vars

\* job.json parses, and so did whatever a reader got.
StateFileWhole ==
    /\ ReadJson(files.job_json) # JSONDecodeError
    /\ result # JSONDecodeError

\* Only the rename changes job.json; a crash before it leaves job.json as it was.
StateFileChangesByRename ==
    files'.job_json # files.job_json =>
        /\ ctl.pc = "tmp_writing"
        /\ files'.job_json = JsonDumps(ctl.payload)
        /\ ctl'.pc = "idle"

\* C17: no reader of job.json sees a partially written file: the text goes to a
\* temp file that is renamed over job.json, and a crash between the temp write
\* and the rename leaves the previous content in place.
C17_StateFileAtomic == [](StateFileWhole) /\ [][StateFileChangesByRename]_vars

\* A writer died with a cut-off temp file, and a reader then got the previous
\* content.
C17_Witness ==
    /\ ctl.pc = "idle"
    /\ files.tmp_exists
    /\ Len(files.tmp) \in 1..2
    /\ calls = 1
    /\ result = "queued"

\* ---------------------------------------------------------------- C18

\* The events a step appended.
NewEvents == SubSeq(events', Len(events) + 1, Len(events'))

NewlyLogged(name) == \E i \in 1..Len(NewEvents) : NewEvents[i].event = name

\* The controller left a regular or forced agent run whose runtime holds a
\* committed final report.
LeavesRunAfterCommit ==
    /\ ctl.pc \in {"agent_run", "forced_run"}
    /\ rt.final_markdown_text # <<>>
    /\ ctl'.pc \notin {ctl.pc, "crashed"}

\* C18: once the final report is committed, leaving the agent run launches no
\* further run (regular or forced) and takes the controller to the PDF export
\* (status pdf_exporting logged in that step, and only the export itself can
\* still fail); an exception of the run on completion, during its cancel, or of
\* a forced run is logged as its 'ignored' event and not propagated.
C18_CommittedReportSurvivesRunExceptions ==
    [][/\ LeavesRunAfterCommit =>
            /\ ctl'.pc \in {"done", "exception"}
            /\ ctl'.attempt = ctl.attempt
            /\ ctl'.forced_choice = ctl.forced_choice
            /\ \E i \in 1..Len(NewEvents) : NewEvents[i] = StatusEvent("status", "pdf_exporting")
            /\ job'.status = IF ctl'.pc = "done" THEN "completed" ELSE "pdf_exporting"
            /\ ~NewlyLogged("agent_run_incomplete")
            /\ ~NewlyLogged("agent_forced_final_write_start")
       /\ (rt.final_markdown_text # <<>> /\ AgentRunRaises) =>
            NewlyLogged("agent_run_post_final_exception_ignored") /\ LeavesRunAfterCommit
       /\ (rt.final_markdown_text # <<>> /\ ForcedRunRaises) =>
            /\ NewlyLogged("agent_forced_final_write_post_success_exception_ignored")
            /\ LeavesRunAfterCommit
       /\ (WatcherCancels /\ ~NewlyLogged("agent_run_terminated_after_final_write")) => FALSE
       /\ WatcherCancels => LeavesRunAfterCommit]_vars

\* The agent run raised after the commit, the exception was ignored and the job
\* completed through the export.
C18_Witness ==
    /\ ctl.pc = "done"
    /\ job.status = "completed"
    /\ job.pdf_ready
    /\ \E i \in 1..Len(events) : events[i].event = "agent_run_post_final_exception_ignored"
    /\ ~\E i \in 1..Len(events) : events[i].event = "pipeline_exception"

\* ---------------------------------------------------------------- C19

\* Every kind of agent_resume_attempts: negative, zero, in range, above the cap.
AttemptSettingsChoices == {SettingsOf(g, 1, 1, ra) : g \in BOOLEAN, ra \in {-1, 0, 1, 2, 3}}

InitAttempts ==
    /\ settings \in AttemptSettingsChoices
    /\ ctl = [pc |-> "spawned", attempt |-> 0, forced_choice |-> 0, budget |-> MaxJobToolCalls,
              suspended |-> <<>>]
    /\ rt = NoRuntime
    /\ job = NewJob
    /\ files = NewFiles
    /\ events = <<Event("created")>>
    /\ result = NoResult
    /\ calls = 0

SpecAttempts == InitAttempts /\ [][Next]_vars

\* C19: whatever agent_resume_attempts is (0, negative and more than 2
\* included), a run of the pipeline never launches more than 2 regular agent
\* attempts, and once the parse has returned it has launched at least 1.
C19_AttemptsBetweenOneAndTwo ==
    /\ ctl.attempt \in 0..2
    /\ ctl.pc \in {"agent_run", "forced_run"} => ctl.attempt \in 1..2
    /\ (rt # NoRuntime /\ ctl.pc \in {"done", "exception"}) => ctl.attempt \in 1..2

\* A request outside 1..2 was clamped: all the attempts allowed were launched
\* and the controller went on to the forced final write.
C19_Witness ==
    /\ settings.agent_resume_attempts \notin 1..2
    /\ ctl.pc = "forced_run"
    /\ ctl.attempt = max_attempts

\* ---------------------------------------------------------------- C20

\* A boolean key of a payload, absent meaning false; a string key, absent
\* meaning None.
PayloadFlag(p, k) == k \in DOMAIN p /\ p[k]

PayloadField(p, k) == IF k \in DOMAIN p THEN p[k] ELSE None

\* The call failed: the handler raised, returned status 'error', or returned the
\* payload it substitutes for an adapter exception.
ToolCallFailed(p) ==
    \/ PayloadFlag(p, "raised")
    \/ p.status = "error"
    \/ p.reason = "paper_search_request_failed"

IsRetryPayload(p) ==
    /\ p.status = "error"
    /\ p.reason # None
    /\ PayloadFlag(p, "retry_required")
    /\ PayloadField(p, "retry_tool") # None

\* C20: no tool call raises to the framework, and every failed call returns a
\* payload with status 'error', a reason, retry_required true and a retry_tool.
C20_FailuresReturnedAsRetryPayloads ==
    /\ ~PayloadFlag(result, "raised")
    /\ ToolCallFailed(result) => IsRetryPayload(result)

\* The failures of review_final_markdown_write and the paper-search gate of
\* pdf_annotate are retry payloads naming the tool to call again.
C20_GatedFailuresAreRetryPayloads ==
    (/\ result.status = "error"
     /\ \/ result.tool = "review_final_markdown_write"
        \/ result.reason = "paper_search_calls_not_met")
        => IsRetryPayload(result) /\ result.retry_tool = result.tool

\* ---------------------------------------------------------------- C21

\* ---- sequences of paper_search calls, with what they were given and got
\* Under this specification `ctl` also keeps the history the claims speak of:
\* `encountered`, every query and question string met so far, and `last`, the
\* adapter's outcome in the latest call.

MaxSearchCalls == 3

\* The lists normalize_question_list hands over: none, or two questions.
PaperSearchQuestionLists == {<<>>, << <<"A">>, <<"c", " ", " ", "d">> >>}

\* The adapter's outcomes, with a success that reports its count directly and
\* names a question only in question_results.
SearchOutcomes ==
    AdapterSearchOutcomes
        \cup { [raised |-> FALSE, success |-> TRUE, count |-> 2, papers |-> 0,
                group_counts |-> <<>>, questions |-> <<>>,
                question_results |-> << <<"C", " ", "D">> >>] }

\* One whole paper_search call (query and question_list given).
paper_search_call ==
    /\ calls < MaxSearchCalls
    /\ \E query \in PaperSearchQueries, question_list \in PaperSearchQuestionLists,
          outcome \in SearchOutcomes :
       \E r2 \in {PaperSearchAfterAwait(PaperSearchBeforeAwait(rt, query, question_list),
                                        outcome)} :
          /\ rt' = r2
          /\ job' = sync_state_usage(job, r2)
          /\ events' = Append(events, Event("paper_search_called"))
          /\ result' = PaperSearchPayload(r2, outcome)
          /\ ctl' = [ctl EXCEPT
                       !.encountered =
                           @ \cup {query} \cup Range(question_list)
                             \cup (IF outcome.raised THEN {}
                                   ELSE Range(outcome.questions)
                                        \cup Range(outcome.question_results)),
                       !.last = <<outcome>>]
    /\ calls' = calls + 1
    /\ UNCHANGED <<settings, files>>

InitSearch ==
    /\ settings \in ToolSettingsChoices
    /\ ctl = [pc |-> "agent_run", attempt |-> 1, forced_choice |-> 0, budget |-> MaxSearchCalls,
              suspended |-> <<>>, encountered |-> {}, last |-> <<>>]
    /\ rt = NewRuntime(PageIndex)
    /\ job = ParsedJob(StartedJob(NewJob), FALSE)
    /\ files = ParsedFiles(NewFiles)
    /\ events = ParsedEvents(StartedEvents(<<Event("created")>>), FALSE)
    /\ result = NoResult
    /\ calls = 0

SpecSearch == InitSearch /\ [][paper_search_call]_vars

LastSearchSucceeded == ~ctl'.last[1].raised /\ ctl'.last[1].success

\* The paper count of a counted success, else 0.
LastSearchPapers ==
    IF LastSearchSucceeded /\ count_papers(ctl'.last[1]) > 0
    THEN count_papers(ctl'.last[1]) ELSE 0

SearchCountersStep ==
    /\ rt'.paper_search_usage.total_calls = rt.paper_search_usage.total_calls + 1
    /\ rt'.paper_search_usage.successful_calls
         = rt.paper_search_usage.successful_calls + (IF LastSearchSucceeded THEN 1 ELSE 0)
    /\ rt'.paper_search_usage.effective_calls
         = rt.paper_search_usage.effective_calls + (IF LastSearchPapers > 0 THEN 1 ELSE 0)
    /\ rt'.paper_search_usage.papers_found
         = rt.paper_search_usage.papers_found + LastSearchPapers
    /\ rt'.paper_search_usage.distinct_queries >= rt.paper_search_usage.distinct_queries

\* C22: each paper_search call adds 1 to total_calls whatever the adapter does,
\* 1 to successful_calls only on a success, 1 to effective_calls and the paper
\* count to papers_found only on a success with papers; so effective_calls <=
\* successful_calls <= total_calls always, and no counter decreases.
C22_SearchCountersStepAndOrder ==
    /\ [](/\ rt.paper_search_usage.effective_calls <= rt.paper_search_usage.successful_calls
          /\ rt.paper_search_usage.successful_calls <= rt.paper_search_usage.total_calls
          /\ rt.paper_search_usage.total_calls = calls)
    /\ [][SearchCountersStep]_vars

\* Three calls: the adapter raised, reported a failure with papers, and reported
\* a success with papers.
C22_Witness ==
    /\ rt.paper_search_usage.total_calls = 3
    /\ rt.paper_search_usage.successful_calls = 1
    /\ rt.paper_search_usage.effective_calls = 1
    /\ rt.paper_search_usage.papers_found = 2
    /\ ctl.last[1].count = 2 /\ ctl.last[1].success

\* ---------------------------------------------------------------- C23

\* The paper_search calls made so far, successful or not, have reached the
\* annotation threshold.
SearchThresholdReached ==
    rt.tool_counts["paper_search"] >= Max(0, settings.min_paper_search_calls_for_pdf_annotate)

\* What the latest paper_search call reported agrees with the threshold.
SearchHintMatchesThreshold ==
    result.tool = "paper_search" =>
        /\ result.can_start_pdf_annotate = SearchThresholdReached
        /\ result.next_action = IF SearchThresholdReached THEN "start_pdf_annotate"
                                ELSE "continue_paper_search"

\* A pdf_annotate call is blocked by the gate below the threshold and, from the
\* threshold on, can only be refused for its own arguments.
AnnotateFollowsThreshold ==
    rt'.tool_counts["pdf_annotate"] = rt.tool_counts["pdf_annotate"] + 1 =>
        IF SearchThresholdReached
        THEN \/ /\ result'.status = "ok"
                /\ Len(rt'.annotations) = Len(rt.annotations) + 1
             \/ /\ result'.status = "error"
                /\ result'.reason \in {"page_not_found", "empty_span", "comment_required"}
        ELSE /\ result'.status = "error"
             /\ result'.reason = "paper_search_calls_not_met"

\* C23: paper_search reports can_start_pdf_annotate and next_action =
\* start_pdf_annotate exactly when the number of paper_search calls, successful
\* or not, has reached min_paper_search_calls_for_pdf_annotate; below it
\* pdf_annotate is blocked, and from then on a pdf_annotate call on an existing
\* page with a non-empty span and comment returns ok.
C23_AnnotateGateBlocksThenUnblocks ==
    [](SearchHintMatchesThreshold) /\ [][AnnotateFollowsThreshold]_vars

\* Blocked, then a failed paper_search that reaches the threshold, then ok.
C23_Witness ==
    /\ result.tool = "pdf_annotate"
    /\ result.status = "ok"
    /\ rt.tool_counts["pdf_annotate"] = 2
    /\ rt.tool_counts["paper_search"] = 1
    /\ rt.paper_search_usage.successful_calls = 0
    /\ Len(rt.annotations) = 1

\* ---------------------------------------------------------------- C24

\* ---- assembling a report from a section map and extracting it again

\* Trimmed, non-empty contents: one line; two lines around a blank line; lines
\* around a heading that names no required section; around one that names one.
SectionContents ==
    { <<TextLine("X")>>,
      <<TextLine("X"), TextLine(""), TextLine("Y")>>,
      <<TextLine("X"), HeadingLine("Introduction"), TextLine("Y")>>,
      <<TextLine("X"), HeadingLine("Scores"), TextLine("Y")>> }

\* The sections whose content varies; the others hold one line.
VariedSections == {"summary", "key_issues", "scores"}

\* A section map M is drawn; nothing is assembled yet.
InitRoundTrip ==
    /\ settings \in {SettingsOf(FALSE, 1, 1, 1)}
    /\ ctl = [pc |-> "drawn", attempt |-> 0, forced_choice |-> 0, budget |-> 0,
              suspended |-> <<>>]
    /\ \E varied \in [VariedSections -> SectionContents] :
         rt = [NewRuntime(PageIndex) EXCEPT
                 !.final_report_draft_sections =
                     [id \in SectionIds |-> IF id \in VariedSections THEN varied[id]
                                            ELSE <<TextLine("X")>>]]
    /\ job = NewJob
    /\ files = NewFiles
    /\ events = <<>>
    /\ result = [tool |-> None, status |-> None, reason |-> None]
    /\ calls = 0

\* _build_final_report_markdown_from_sections on M, then
\* _extract_required_sections_from_markdown on the markdown it returned.
AssembleThenExtract ==
    /\ ctl.pc = "drawn"
    /\ \E markdown \in {build_final_report_markdown_from_sections(
                            rt.final_report_draft_sections)} :
         result' = [tool |-> None, status |-> None, reason |-> None,
                    markdown |-> markdown,
                    extracted |-> extract_required_sections_from_markdown(markdown)]
    /\ ctl' = [ctl EXCEPT !.pc = "extracted"]
    /\ UNCHANGED <<settings, rt, job, files, events, calls>>

SpecRoundTrip == InitRoundTrip /\ [][AssembleThenExtract]_vars

\* No content of the map holds a heading line.
NoHeadingInContents ==
    \A id \in SectionIds :
        \A i \in DOMAIN rt.final_report_draft_sections[id] :
            ~rt.final_report_draft_sections[id][i].h

\* C24: for every map M from the required section ids to non-empty trimmed
\* contents, whatever their lines, the sections extracted from the markdown
\* assembled from M are M.
C24_ExtractInvertsAssemble ==
    ctl.pc = "extracted" => result.extracted = rt.final_report_draft_sections

\* The round trip gives M back when no content holds a heading line.
C24_ExtractInvertsAssembleWithoutHeadings ==
    (ctl.pc = "extracted" /\ NoHeadingInContents)
        => result.extracted = rt.final_report_draft_sections

\* ---------------------------------------------------------------- C25

\* ---- the page index: markdown_parser.build_page_index
\* Under this specification `files` holds the parsed markdown and the content
\* list, and the runtime's page_index is what build_page_index makes of them.
\* A text is a sequence of characters; a content-list row has `int_page` (its
\* page_idx is an int), `page_idx` and `text`; a markdown line has `page` (n for
\* a '## Page n' heading, 0 for any other line) and `t`.

MaxRows == 3

\* str.strip() on a one-line text
Trim(text) ==
    IF \A i \in DOMAIN text : text[i] = " " THEN <<>>
    ELSE SubSeq(text,
                CHOOSE i \in DOMAIN text : text[i] # " " /\ \A j \in 1..(i - 1) : text[j] = " ",
                CHOOSE i \in DOMAIN text :
                    text[i] # " " /\ \A j \in (i + 1)..Len(text) : text[j] = " ")

RECURSIVE MarkdownPages(_, _, _)
\* The markdown branch: each '## Page n' heading opens (or reopens, emptied)
\* page n, which takes the non-blank trimmed lines up to the next heading; lines
\* before the first heading are dropped.
MarkdownPages(lines, page, mapped) ==
    IF lines = <<>> THEN mapped
    ELSE IF Head(lines).page > 0
    THEN MarkdownPages(Tail(lines), Head(lines).page,
                       [q \in DOMAIN mapped \cup {Head(lines).page} |->
                           IF q = Head(lines).page THEN <<>> ELSE mapped[q]])
    ELSE IF page = 0 \/ Trim(Head(lines).t) = <<>>
    THEN MarkdownPages(Tail(lines), page, mapped)
    ELSE MarkdownPages(Tail(lines), page,
                       [mapped EXCEPT ![page] = Append(@, Trim(Head(lines).t))])

\* Fault variant: the text fields are kept as they are, blank ones included.
build_page_index_untrimmed(markdown, content_list) ==
    [p \in {content_list[i].page_idx + 1 : i \in {j \in DOMAIN content_list :
                                                    content_list[j].int_page}} |->
        [i \in DOMAIN SelectSeq(content_list,
                                LAMBDA row : row.int_page /\ row.page_idx + 1 = p) |->
            SelectSeq(content_list,
                      LAMBDA row : row.int_page /\ row.page_idx + 1 = p)[i].text]]

\* build_page_index: the rows with an int page_idx and a non-blank text, grouped
\* by page_idx + 1; when there is no such row, the pages the markdown's
\* '## Page n' headings delimit; when there is no heading, page 1 with every
\* non-blank line.
build_page_index(markdown, content_list) ==
    IF \E i \in DOMAIN content_list :
          content_list[i].int_page /\ Trim(content_list[i].text) # <<>>
    THEN [p \in {content_list[i].page_idx + 1 :
                    i \in {j \in DOMAIN content_list :
                             content_list[j].int_page /\ Trim(content_list[j].text) # <<>>}} |->
            [i \in DOMAIN SelectSeq(content_list,
                                    LAMBDA row : /\ row.int_page
                                                 /\ Trim(row.text) # <<>>
                                                 /\ row.page_idx + 1 = p) |->
                Trim(SelectSeq(content_list,
                               LAMBDA row : /\ row.int_page
                                            /\ Trim(row.text) # <<>>
                                            /\ row.page_idx + 1 = p)[i].text)]]
    ELSE IF \E i \in DOMAIN markdown : markdown[i].page > 0
    THEN MarkdownPages(markdown, 0, <<>>)
    ELSE MarkdownPages(markdown, 1, [p \in {1} |-> <<>>])

\* Rows: text with blanks around it, a blank text, a row of the next page, a row
\* whose page_idx is not an int.
ContentRows ==
    { [int_page |-> TRUE, page_idx |-> 0, text |-> <<"a", " ">>],
      [int_page |-> TRUE, page_idx |-> 0, text |-> <<" ", "b">>],
      [int_page |-> TRUE, page_idx |-> 0, text |-> <<" ">>],
      [int_page |-> TRUE, page_idx |-> 1, text |-> <<"c">>],
      [int_page |-> FALSE, page_idx |-> 0, text |-> <<"d">>] }

\* Markdown without and with a page heading.
IndexMarkdowns ==
    { << [page |-> 0, t |-> <<"m", " ">>] >>,
      << [page |-> 0, t |-> <<"x">>], [page |-> 2, t |-> <<>>], [page |-> 0, t |-> <<"m">>] >> }

\* parse_pdf has returned markdown and a non-empty content list.
InitPageIndex ==
    /\ settings \in {SettingsOf(FALSE, 1, 1, 1)}
    /\ ctl = [pc |-> "parsed", attempt |-> 0, forced_choice |-> 0, budget |-> 0,
              suspended |-> <<>>]
    /\ rt = NoRuntime
    /\ job = NewJob
    /\ \E n \in 1..MaxRows : \E content_list \in [1..n -> ContentRows] :
       \E markdown \in IndexMarkdowns :
          files = [NewFiles EXCEPT !.mineru_markdown = markdown,
                                   !.mineru_content_list = content_list]
    /\ events = <<>>
    /\ result = NoResult
    /\ calls = 0

\* run_job_async builds the page index and hands it to the runtime.
BuildsPageIndex ==
    /\ ctl.pc = "parsed"
    /\ rt' = NewRuntime(build_page_index(files.mineru_markdown, files.mineru_content_list))
    /\ ctl' = [ctl EXCEPT !.pc = "indexed"]
    /\ UNCHANGED <<settings, job, files, events, result, calls>>

SpecPageIndex == InitPageIndex /\ [][BuildsPageIndex]_vars

\* The lines the index holds for page p (none when it has no such page).
IndexedLines(p) == IF p \in DOMAIN rt.page_index THEN rt.page_index[p] ELSE <<>>

\* The rows of page p: an int page_idx equal to p - 1.
RowsOfPage(p) ==
    SelectSeq(files.mineru_content_list, LAMBDA row : row.int_page /\ row.page_idx = p - 1)

\* The pages the rows or the index speak of.
PagesInPlay ==
    DOMAIN rt.page_index
        \cup {files.mineru_content_list[i].page_idx + 1 : i \in DOMAIN files.mineru_content_list}

\* Some row has an int page_idx and a text that is not blank.
HasUsableRow ==
    \E i \in DOMAIN files.mineru_content_list :
        /\ files.mineru_content_list[i].int_page
        /\ \E k \in DOMAIN files.mineru_content_list[i].text :
              files.mineru_content_list[i].text[k] # " "

\* C25: with a non-empty content list, the index maps every page p to exactly
\* the trimmed text fields of the rows with page_idx = p - 1, in input order.
C25_PageIndexIsRowsOfPage ==
    ctl.pc = "indexed" =>
        \A p \in PagesInPlay :
            /\ Len(IndexedLines(p)) = Len(RowsOfPage(p))
            /\ \A i \in DOMAIN RowsOfPage(p) : IndexedLines(p)[i] = Trim(RowsOfPage(p)[i].text)

\* C25 as it holds: when some row has an int page_idx and a non-blank text, the
\* index maps every page p to exactly the non-blank trimmed text fields of the
\* rows with page_idx = p - 1, in input order.
C25_PageIndexIsNonBlankRowsOfPage ==
    (ctl.pc = "indexed" /\ HasUsableRow) =>
        \A p \in PagesInPlay :
            IndexedLines(p)
              = [i \in DOMAIN SelectSeq(RowsOfPage(p), LAMBDA row : Trim(row.text) # <<>>) |->
                    Trim(SelectSeq(RowsOfPage(p), LAMBDA row : Trim(row.text) # <<>>)[i].text)]

\* Three rows of page 1, the middle one blank: two lines, trimmed, in order.
C25_Witness ==
    /\ ctl.pc = "indexed"
    /\ Len(files.mineru_content_list) = 3
    /\ files.mineru_content_list[1].text = <<"a", " ">>
    /\ files.mineru_content_list[2].text = <<" ">>
    /\ files.mineru_content_list[3].text = <<" ", "b">>
    /\ rt.page_index = [p \in {1} |-> << <<"a">>, <<"b">> >>]

\* ------------------------------------------------- MinerU adapter: parse_pdf
\* Times are in tenths of a second. A message is the sequence of its words; a
\* phrase is in a message when its words are a contiguous run of it.

\* max(30, int(poll_timeout_seconds)), in tenths of a second.
MinPollTimeout == 300

\* max(0.8, float(poll_interval_seconds)), in tenths of a second.
MinPollSleep == 8

\* str.lower() on the words and states of the payloads below.
MineruLower(word) ==
    IF word = "Expire" THEN "expire" ELSE IF word = "FAILED" THEN "failed" ELSE word

\* _extract_state: the first non-blank state the payload carries, lowered.
extract_state(payload) == MineruLower(payload.state)

\* _extract_markdown_from_payload: the stripped inline markdown.
extract_markdown_from_payload(payload) == Trim(payload.markdown)

\* str(payload.get('msg') or payload.get('message') or '').lower()
PayloadMessage(payload) ==
    [i \in DOMAIN (IF payload.msg # <<>> THEN payload.msg ELSE payload.message) |->
        MineruLower((IF payload.msg # <<>> THEN payload.msg ELSE payload.message)[i])]

\* The known pattern of the comment in _is_terminal_failure.
TaskNotFoundOrExpire(msg) ==
    Contains(msg, <<"task", "not", "found">>) \/ Contains(msg, <<"expire">>)

\* _is_terminal_success
is_terminal_success(payload) ==
    \/ extract_markdown_from_payload(payload) # <<>>
    \/ extract_state(payload) \in {"done", "completed", "success", "succeeded", "finished"}
    \/ /\ payload.int_code
       /\ payload.code = 0
       /\ \/ payload.full_zip_url
          \/ payload.markdown # <<>>
          \/ \E i \in DOMAIN payload.extract_result :
                /\ MineruLower(payload.extract_result[i].state)
                      \in {"done", "completed", "success", "succeeded", "finished"}
                /\ payload.extract_result[i].full_zip_url

\* Fault variant: any non-zero code with a message that does not speak of
\* processing or running is a failure.
is_terminal_failure_any_code(payload) ==
    \/ extract_state(payload) \in {"failed", "error", "aborted"}
    \/ /\ payload.int_code
       /\ payload.code # 0
       /\ PayloadMessage(payload) # <<>>
       /\ ~Contains(PayloadMessage(payload), <<"processing">>)
       /\ ~Contains(PayloadMessage(payload), <<"running">>)

\* _is_terminal_failure
is_terminal_failure(payload) ==
    \/ extract_state(payload) \in {"failed", "error", "aborted"}
    \/ /\ payload.int_code
       /\ payload.code # 0
       /\ ~(payload.code = -60012 /\ TaskNotFoundOrExpire(PayloadMessage(payload)))
       /\ PayloadMessage(payload) # <<>>
       /\ ~Contains(PayloadMessage(payload), <<"processing">>)
       /\ ~Contains(PayloadMessage(payload), <<"running">>)

\* A status payload: no state, no code, no message, no result.
EmptyPayload ==
    [state |-> "", int_code |-> FALSE, code |-> 0, msg |-> <<>>, message |-> <<>>,
     markdown |-> <<>>, full_zip_url |-> FALSE, extract_result |-> <<>>]

\* The payloads a status URL answers with.
StatusPayloads ==
    { [EmptyPayload EXCEPT !.state = "running", !.int_code = TRUE],
      [EmptyPayload EXCEPT !.int_code = TRUE, !.code = -60012,
                           !.msg = <<"task", "not", "found", "or", "expire">>],
      [EmptyPayload EXCEPT !.int_code = TRUE, !.code = -60012, !.message = <<"Expire">>],
      [EmptyPayload EXCEPT !.int_code = TRUE, !.code = -60012, !.msg = <<"expire">>,
                           !.state = "FAILED"],
      [EmptyPayload EXCEPT !.int_code = TRUE, !.code = -60012, !.msg = <<"busy">>,
                           !.message = <<"task", "not", "found">>],
      [EmptyPayload EXCEPT !.int_code = TRUE, !.code = -1, !.msg = <<"quota", "exceeded">>],
      [EmptyPayload EXCEPT !.int_code = TRUE, !.code = -1, !.msg = <<"processing">>],
      [EmptyPayload EXCEPT !.int_code = TRUE, !.state = "done", !.full_zip_url = TRUE],
      [EmptyPayload EXCEPT !.int_code = TRUE,
                           !.extract_result = << [state |-> "running", full_zip_url |-> FALSE],
                                                 [state |-> "done", full_zip_url |-> TRUE] >>],
      [EmptyPayload EXCEPT !.state = "done"],
      [EmptyPayload EXCEPT !.markdown = <<" ", "m">>] }

\* What one GET of a status URL yields: the request raises, a 5xx or 404
\* status, a body that is no JSON object, or a payload.
StatusResponses ==
    {[kind |-> k, payload |-> EmptyPayload] : k \in {"exception", "status_500", "status_404", "no_dict"}}
        \cup {[kind |-> "payload", payload |-> p] : p \in StatusPayloads}

RECURSIVE build_status_urls(_, _)
\* _build_status_urls: the URLs of the upload response, then the templates with
\* a {batch_id} placeholder, each URL once, in order.
build_status_urls(candidates, urls) ==
    IF candidates = <<>> THEN urls
    ELSE build_status_urls(Tail(candidates),
                           IF Head(candidates) = "" \/ Head(candidates) \in Range(urls)
                           THEN urls ELSE Append(urls, Head(candidates)))

\* Fault variant: the sleep lasts what the configuration says, zero included.
PollSleepAsConfigured(poll_interval) == poll_interval

\* asyncio.sleep(max(0.8, float(poll_interval_seconds)))
PollSleep(poll_interval) == Max(MinPollSleep, poll_interval)

\* MineruConfig as the adapter uses it.
MineruConfigs ==
    [configured : BOOLEAN, allow_local_fallback : BOOLEAN,
     poll_timeout : {0, 310}, poll_interval : {0, 200},
     poll_endpoint_templates : {<<>>, <<"t1">>}]

\* What parse_pdf has not yielded yet.
NoParseResult ==
    [outcome |-> None, provider |-> None, warning |-> None, error |-> None, cause |-> None]

\* What _poll_batch_result has not yielded yet.
NoPollResult == [outcome |-> None, payload |-> <<>>]

\* parse_pdf_locally returns a result or raises (pypdf on the bytes of the file).
LocalParserOutcomes == {"returned", "raised"}

\* Fault variant: the failure is raised whatever allow_local_fallback says.
ParseFailsWithoutFallback(c, error, cause) ==
    /\ ctl' = [c EXCEPT !.pc = "done"]
    /\ result' = [NoParseResult EXCEPT !.outcome = "raised", !.error = error, !.cause = cause]

\* parse_pdf on a failure of the remote (or without a remote): the wrapped
\* error when allow_local_fallback is off, _local_fallback with a warning that
\* names the reason when it is on.
ParseFails(c, error, cause) ==
    /\ ctl' = [c EXCEPT !.pc = "done"]
    /\ IF ~settings.allow_local_fallback
       THEN result' = [NoParseResult EXCEPT !.outcome = "raised", !.error = error, !.cause = cause]
       ELSE \E local \in LocalParserOutcomes :
               result' = IF local = "returned"
                         THEN [NoParseResult EXCEPT !.outcome = "returned",
                                                    !.provider = "local_pypdf",
                                                    !.warning = cause]
                         ELSE [NoParseResult EXCEPT !.outcome = "raised",
                                                    !.error = "local_parser"]

\* parse_pdf up to its first await: the branch of an adapter that is not configured.
parse_pdf ==
    /\ ctl.pc = "parse_pdf"
    /\ IF ~settings.configured
       THEN ParseFails(ctl, "not_configured", "not_configured")
       ELSE /\ ctl' = [ctl EXCEPT !.pc = "upload"]
            /\ result' = result
    /\ UNCHANGED <<settings, rt, job, files, events, calls>>

\* _parse_via_mineru from the upload request to the first status request: the
\* upload fails (HTTP error, code != 0, no upload URL, PUT refused, no batch id)
\* or yields the status URLs of the response; the deadline is set on entry of
\* _poll_batch_result.
UploadReturns ==
    /\ ctl.pc = "upload"
    /\ \E uploaded \in BOOLEAN, data_urls \in {<<>>, <<"s1">>, <<"t1", "">>} :
          IF ~uploaded
          THEN ParseFails(ctl, "fallback_disabled", "upload")
          ELSE \E urls \in {build_status_urls(data_urls \o settings.poll_endpoint_templates, <<>>)} :
                  IF urls = <<>>
                  THEN ParseFails(ctl, "fallback_disabled", "no_status_url")
                  ELSE /\ ctl' = [ctl EXCEPT !.pc = "poll", !.urls = urls, !.url = 1,
                                             !.deadline = ctl.now
                                                 + Max(MinPollTimeout, settings.poll_timeout)]
                       /\ result' = result
    /\ UNCHANGED <<settings, rt, job, files, events, calls>>

\* One pass of the body of 'for status_url in status_urls': the GET and what the
\* loop does with the response.
PollStatusUrl ==
    /\ ctl.pc = "poll"
    /\ \E response \in StatusResponses :
       \E c \in {[ctl EXCEPT !.received = <<response>>,
                             !.last_payload = IF response.kind = "payload"
                                              THEN <<response.payload>> ELSE @,
                             !.benign_seen = @ \/ (/\ response.kind = "payload"
                                                   /\ response.payload.code = -60012
                                                   /\ ~is_terminal_failure(response.payload))]} :
          IF response.kind = "payload" /\ is_terminal_success(response.payload)
          THEN /\ ctl' = [c EXCEPT !.pc = "extract",
                                   !.poll = [outcome |-> "returned",
                                             payload |-> <<response.payload>>]]
               /\ result' = result
          ELSE IF response.kind = "payload" /\ is_terminal_failure(response.payload)
          THEN ParseFails([c EXCEPT !.poll = [outcome |-> "batch_failed",
                                              payload |-> <<response.payload>>]],
                          "fallback_disabled", "batch_failed")
          ELSE /\ ctl' = IF c.url < Len(c.urls)
                         THEN [c EXCEPT !.url = @ + 1]
                         ELSE [c EXCEPT !.pc = "sleep"]
               /\ result' = result
    /\ UNCHANGED <<settings, rt, job, files, events, calls>>

\* The sleep between two cycles and the test of 'while time < deadline' after
\* it: the next cycle, or the TimeoutError with the last payload seen.
PollSleeps ==
    /\ ctl.pc = "sleep"
    /\ \E now \in {ctl.now + PollSleep(settings.poll_interval)} :
          IF now < ctl.deadline
          THEN /\ ctl' = [ctl EXCEPT !.pc = "poll", !.url = 1, !.now = now, !.received = <<>>]
               /\ result' = result
          ELSE ParseFails([ctl EXCEPT !.now = now, !.received = <<>>,
                                      !.poll = [outcome |-> "timeout",
                                                payload |-> ctl.last_payload]],
                          "fallback_disabled", "timeout")
    /\ UNCHANGED <<settings, rt, job, files, events, calls>>

\* _extract_outputs and the test of the markdown: the inline markdown, else
\* what the download of the result yields (text, nothing, or an exception).
ExtractOutputs ==
    /\ ctl.pc = "extract"
    /\ \E downloaded \in {"markdown", "empty", "raised"} :
          /\ ~(ctl.poll.payload[1].full_zip_url
                 \/ \E i \in DOMAIN ctl.poll.payload[1].extract_result :
                       ctl.poll.payload[1].extract_result[i].full_zip_url)
                => downloaded = "empty"
          /\ IF extract_markdown_from_payload(ctl.poll.payload[1]) # <<>> \/ downloaded = "markdown"
             THEN /\ ctl' = [ctl EXCEPT !.pc = "done"]
                  /\ result' = [NoParseResult EXCEPT !.outcome = "returned",
                                                     !.provider = "mineru_v4"]
             ELSE ParseFails(ctl, "fallback_disabled",
                             IF downloaded = "raised" THEN "download" ELSE "empty_markdown")
    /\ UNCHANGED <<settings, rt, job, files, events, calls>>

InitParse ==
    /\ settings \in MineruConfigs
    /\ ctl = [pc |-> "parse_pdf", now |-> 0, deadline |-> 0, urls |-> <<>>, url |-> 0,
              last_payload |-> <<>>, received |-> <<>>, benign_seen |-> FALSE,
              poll |-> NoPollResult]
    /\ rt = NoRuntime
    /\ job = NewJob
    /\ files = NewFiles
    /\ events = <<>>
    /\ result = NoParseResult
    /\ calls = 0

NextParse == parse_pdf \/ UploadReturns \/ PollStatusUrl \/ PollSleeps \/ ExtractOutputs

SpecParse == InitParse /\ [][NextParse]_vars

\* Every request ends (the client has a timeout) and every sleep ends.
FairSpecParse == SpecParse /\ WF_vars(NextParse)

\* The response a step of the polling loop has just received, if it is a payload.
ReceivesPayload(payload) ==
    /\ ctl.pc = "poll"
    /\ ctl' # ctl
    /\ ctl'.received = << [kind |-> "payload", payload |-> payload] >>

\* Code -60012, and 'task not found' or 'expire' under the msg or the message key.
BenignCodeAndText(payload) ==
    /\ payload.int_code
    /\ payload.code = -60012
    /\ \/ TaskNotFoundOrExpire([i \in DOMAIN payload.msg |-> MineruLower(payload.msg[i])])
       \/ TaskNotFoundOrExpire([i \in DOMAIN payload.message |->
                                   MineruLower(payload.message[i])])

\* Code -60012, the known text in the message the code reads (msg, or message
\* when msg is empty), and no state of failure.
BenignPattern(payload) ==
    /\ payload.int_code
    /\ payload.code = -60012
    /\ TaskNotFoundOrExpire(PayloadMessage(payload))
    /\ extract_state(payload) \notin {"failed", "error", "aborted"}

\* The loop goes on after a response: the next status URL of the cycle, or the
\* sleep before the next cycle; nothing is returned or raised.
PollingGoesOn ==
    /\ ctl'.poll = NoPollResult
    /\ result' = result
    /\ IF ctl.url < Len(ctl.urls)
       THEN ctl'.pc = "poll" /\ ctl'.url = ctl.url + 1
       ELSE ctl'.pc = "sleep"

\* After the sleep a new cycle starts at the first URL while the deadline has
\* not passed.
LaterCycleStarts ==
    (ctl.pc = "sleep" /\ ctl'.now < ctl.deadline) => (ctl'.pc = "poll" /\ ctl'.url = 1)

\* A terminal-success payload received after the pattern was met is what the
\* poll returns.
SuccessAfterBenignReturned ==
    \A payload \in StatusPayloads :
        (ctl.benign_seen /\ ReceivesPayload(payload) /\ is_terminal_success(payload))
            => ctl'.poll = [outcome |-> "returned", payload |-> <<payload>>]

ParseOutcomeFollowsFallback ==
    ctl.pc = "done" =>
        IF settings.allow_local_fallback
        THEN /\ result.error \notin {"fallback_disabled", "not_configured"}
             /\ result.outcome = "raised" => result.error = "local_parser"
             /\ (~settings.configured \/ ctl.poll.outcome \in {"batch_failed", "timeout"})
                   => result.provider # "mineru_v4"
             /\ result.provider = "local_pypdf" => result.warning # None
             /\ result.provider = "mineru_v4" => result.warning = None
        ELSE /\ result.provider # "local_pypdf"
             /\ result.error # "local_parser"
             /\ ~settings.configured
                   => (result.outcome = "raised" /\ result.error = "not_configured")
             /\ ctl.poll.outcome \in {"batch_failed", "timeout"}
                   => (/\ result.outcome = "raised"
                       /\ result.error = "fallback_disabled"
                       /\ result.cause = ctl.poll.outcome)
             /\ result.outcome = "returned" => result.provider = "mineru_v4"

PollResultWarranted ==
    /\ ctl.poll.outcome \in {None, "returned", "batch_failed", "timeout"}
    /\ ctl.poll.outcome = "returned"
          => (Len(ctl.poll.payload) = 1 /\ is_terminal_success(ctl.poll.payload[1]))
    /\ ctl.poll.outcome = "batch_failed"
          => (Len(ctl.poll.payload) = 1 /\ is_terminal_failure(ctl.poll.payload[1]))
    /\ ctl.poll.outcome = "timeout"
          => (ctl.now >= ctl.deadline /\ ctl.poll.payload = ctl.last_payload)
    /\ ctl.pc \in {"poll", "sleep"}
          => (/\ ctl.poll.outcome = None
              /\ ctl.deadline >= MinPollTimeout
              /\ ctl.deadline >= settings.poll_timeout
              /\ ctl.pc = "poll" => ctl.now < ctl.deadline)
    /\ ctl.pc = "extract" => ctl.poll.outcome = "returned"

\* C28: the polling loop always terminates: it returns a terminal-success
\* payload, raises on a terminal-failure payload, or raises a timeout (with the
\* last payload seen, if any) once the deadline now + max(30,
\* poll_timeout_seconds) has passed; it never returns a payload that is not
\* terminal-success.
C28_PollingLoopTerminates ==
    [](PollResultWarranted) /\ ((ctl.pc = "poll") ~> (ctl.poll.outcome # None))

\* The deadline passed after a payload that settles nothing: the timeout
\* carries that payload.
C28_Witness ==
    /\ ctl.poll.outcome = "timeout"
    /\ ctl.now >= ctl.deadline
    /\ ctl.poll.payload # <<>>
    /\ ~is_terminal_success(ctl.poll.payload[1])
    /\ ~is_terminal_failure(ctl.poll.payload[1])

\* ------------------------------------------------- recovery with a failed export

\* The recovery path ran in this step and its export of the PDF raised: the
\* report PDF was missing and is still missing.
RecoveryExportFailed ==
    /\ NewlyLogged("completed_recovered")
    /\ ~files.report_pdf
    /\ ~files'.report_pdf

\* C29: when the recovery path runs and the PDF export fails, the job still
\* ends completed, with pdf_ready false, error set to the text of the export
\* exception, the message that the PDF export failed during recovery, and
\* metadata pdf_export_recovery_error recorded.
C29_RecoveryCompletesWithExportError ==
    [][RecoveryExportFailed =>
          /\ ctl'.pc = "done"
          /\ job'.status = "completed"
          /\ job'.final_report_ready
          /\ ~job'.pdf_ready
          /\ ~job'.artifacts.report_pdf_path
          /\ job'.error = "pdf_error"
          /\ job'.message = "Final report persisted, but PDF export failed during recovery."
          /\ job'.metadata.pdf_export_recovery_error
          /\ job'.metadata.post_exception_recovery]_vars

\* A job recovered without its PDF: completed, the export error on record.
C29_Witness ==
    /\ ctl.pc = "done"
    /\ job.status = "completed"
    /\ ~job.pdf_ready
    /\ ~files.report_pdf
    /\ job.error = "pdf_error"
    /\ job.metadata.pdf_export_recovery_error
    /\ Len(events) > 0
    /\ events[Len(events)].event = "completed_recovered"

\* ------------------------------------------------- the draft, section by section

\* Calls of review_final_markdown_write explored in one run.
MaxSectionWrites == 5

\* The sections the agent submits one by one.
FirstFourSections == {"summary", "strengths", "weaknesses", "key_issues"}

\* A markdown blob with the seven other sections.
LastSevenMarkdown ==
    build_final_report_markdown_from_sections(
        [id \in SectionIds |-> IF id \in FirstFourSections THEN <<>> ELSE X])

\* One section by section_id and section_content (a summary with a heading line
\* inside among them), or the blob.
SectionWriteInputs ==
    { [markdown |-> <<>>, legacy |-> NoLegacy, section_id |-> id, section_title |-> None,
       has_section_content |-> TRUE, section_content |-> X] : id \in FirstFourSections }
    \cup
    { [markdown |-> <<>>, legacy |-> NoLegacy, section_id |-> "summary", section_title |-> None,
       has_section_content |-> TRUE,
       section_content |-> <<TextLine("Y"), HeadingLine("Strengths"), TextLine("Z")>>] }
    \cup
    { [markdown |-> LastSevenMarkdown, legacy |-> NoLegacy, section_id |-> None,
       section_title |-> None, has_section_content |-> FALSE, section_content |-> <<>>] }

\* The first agent run about to issue its first call, gates off or on.
InitSectionWrites ==
    /\ settings \in {SettingsOf(FALSE, 1, 1, 1), SettingsOf(TRUE, 1, 1, 1)}
    /\ ctl = [pc |-> "agent_run", attempt |-> 1, forced_choice |-> 0,
              budget |-> MaxSectionWrites, suspended |-> <<>>]
    /\ rt = NewRuntime(PageIndex)
    /\ job = ParsedJob(StartedJob(NewJob), FALSE)
    /\ files = ParsedFiles(NewFiles)
    /\ events = ParsedEvents(StartedEvents(<<Event("created")>>), FALSE)
    /\ result = NoResult
    /\ calls = 0

\* The agent writes the report section by section.
section_write_call ==
    /\ AgentTaskRunning
    /\ \E a \in SectionWriteInputs : FinalWriteCall(a)

SpecSectionWrites == InitSectionWrites /\ [][section_write_call]_vars

\* The required sections with content in the draft r holds.
SectionsInDraft(r) ==
    {id \in SectionIds : \E i \in DOMAIN r.final_report_draft_sections[id] :
                            ~IsBlank(r.final_report_draft_sections[id][i])}

\* The place of a section id in the canonical order.
CanonicalPosition(id) ==
    CHOOSE i \in DOMAIN REQUIRED_FINAL_REPORT_SECTIONS : REQUIRED_FINAL_REPORT_SECTIONS[i].id = id

\* The list s names exactly the ids of S, each once, in canonical order.
ListsInCanonicalOrder(s, S) ==
    /\ Range(s) = S
    /\ Len(s) = Cardinality(S)
    /\ \A i, j \in DOMAIN s : i < j => CanonicalPosition(s[i]) < CanonicalPosition(s[j])

\* A partial response tells the state of the draft.
PartialResponseListsSections ==
    (result.tool = "review_final_markdown_write" /\ result.status = "partial") =>
        /\ ListsInCanonicalOrder(result.completed_sections, SectionsInDraft(rt))
        /\ ListsInCanonicalOrder(result.missing_sections, SectionIds \ SectionsInDraft(rt))
        /\ result.missing_sections # <<>>
        /\ result.next_required_section = result.missing_sections[1]
        /\ (/\ {"summary", "strengths", "weaknesses"} \subseteq SectionsInDraft(rt)
            /\ "key_issues" \notin SectionsInDraft(rt))
              => result.next_required_section = "key_issues"

\* With the gates off, a call with the one section the draft still misses is a commit.
LastSectionInputCommits ==
    (ctl.pc = "agent_run" /\ ~settings.enable_final_gates /\ rt.final_markdown_text = <<>>) =>
        \A a \in SectionWriteInputs :
            (a.section_id # None /\ SectionIds \ SectionsInDraft(rt) = {a.section_id})
                => FinalWritePlan(record_tool(rt, "review_final_markdown_write"), a).kind
                      = "commit"

\* With the gates off, the call after which the draft misses nothing returns ok
\* and commits.
LastSectionCommits ==
    (/\ ~settings.enable_final_gates
     /\ calls' = calls + 1
     /\ rt.final_markdown_text = <<>>
     /\ SectionsInDraft(rt) # SectionIds
     /\ SectionsInDraft(rt') = SectionIds)
        => /\ result'.tool = "review_final_markdown_write"
           /\ result'.status = "ok"
           /\ result'.final_report_persisted
           /\ rt'.final_markdown_text # <<>>
           /\ files'.final_markdown # NoFile
           /\ job'.final_report_ready
           /\ NewlyLogged("final_report_persisted")

\* C30: every partial response of review_final_markdown_write lists as
\* completed_sections the required sections present in the draft and as
\* missing_sections the remaining ones, both in canonical order, and names as
\* next_required_section the first missing one (key_issues once summary,
\* strengths and weaknesses are in the draft); with the gates off, the call that
\* supplies the last missing section returns ok and commits.
C30_PartialResponsesTrackTheDraft ==
    [](PartialResponseListsSections /\ LastSectionInputCommits) /\ [][LastSectionCommits]_vars

\* Summary, strengths and weaknesses are in the draft: key_issues is asked for.
C30_Witness ==
    /\ result.tool = "review_final_markdown_write"
    /\ result.status = "partial"
    /\ result.completed_sections = <<"summary", "strengths", "weaknesses">>
    /\ Len(result.missing_sections) = 8
    /\ result.next_required_section = "key_issues"

\* ------------------------------------------------- the commit-time gates

\* Tool calls explored in one run of the gated final write.
MaxGateCalls == 4

\* A report whose text holds 22 words (11 headings, 11 lines) against this
\* minimum is too short.
LongReportWords == 30

\* Gates on and off, min_annotations_for_final 0, 1 and 2, min_english_words_for_final
\* 0 and above the length of the reports below.
GateSettingsChoices ==
    {[SettingsOf(gates, 1, min_annotations, 1) EXCEPT !.min_english_words_for_final = words] :
        gates \in BOOLEAN, min_annotations \in {0, 1, 2}, words \in {0, LongReportWords}}

\* A complete report in English, a complete report whose scores are in
\* Chinese, and a call with no section payload at all.
GateWriteInputs ==
    { [markdown |-> md, legacy |-> NoLegacy, section_id |-> None, section_title |-> None,
       has_section_content |-> FALSE, section_content |-> <<>>] :
         md \in {FullMarkdown,
                 build_final_report_markdown_from_sections(
                     [[id \in SectionIds |-> X] EXCEPT !["scores"] = <<TextLine("zh")>>]),
                 <<>>} }

InitFinalGates ==
    /\ settings \in GateSettingsChoices
    /\ ctl = [pc |-> "agent_run", attempt |-> 1, forced_choice |-> 0,
              budget |-> MaxGateCalls, suspended |-> <<>>]
    /\ rt = NewRuntime(PageIndex)
    /\ job = ParsedJob(StartedJob(NewJob), FALSE)
    /\ files = ParsedFiles(NewFiles)
    /\ events = ParsedEvents(StartedEvents(<<Event("created")>>), FALSE)
    /\ result = NoResult
    /\ calls = 0

\* The agent submits whole reports, or asks for the stored draft to be committed.
gated_write_call ==
    /\ AgentTaskRunning
    /\ \E a \in GateWriteInputs : FinalWriteCall(a)

NextFinalGates == paper_search \/ pdf_annotate \/ gated_write_call

SpecFinalGates == InitFinalGates /\ [][NextFinalGates]_vars

\* This step is one call of review_final_markdown_write made before any commit.
FinalWriteBeforeCommit ==
    /\ calls' = calls + 1
    /\ result'.tool = "review_final_markdown_write"
    /\ rt.final_markdown_text = <<>>

\* The verdict of validate_final_report on the report the draft of r assembles to.
DraftValidation(r) ==
    validate_final_report(build_final_report_markdown_from_sections(r.final_report_draft_sections),
                          settings.min_english_words_for_final,
                          settings.min_chinese_chars_for_final,
                          settings.force_english_output)

\* The call left a complete draft that passes the commit-time gates and fails
\* the content validation.
ValidationFailedInCall ==
    /\ FinalWriteBeforeCommit
    /\ SectionsInDraft(rt') = SectionIds
    /\ final_gate_reason(rt') = None
    /\ ~DraftValidation(rt').ok

\* The call wrote no report: no file, no text in the runtime, no latch, no
\* 'final_report_persisted'.
NoReportWritten ==
    /\ files' = files
    /\ rt'.final_markdown_text = <<>>
    /\ job'.final_report_ready = job.final_report_ready
    /\ job'.artifacts = job.artifacts
    /\ ~NewlyLogged("final_report_persisted")

\* The call committed the report its draft assembles to.
ReportCommitted ==
    /\ result'.status = "ok"
    /\ result'.final_report_persisted
    /\ rt'.final_markdown_text
          = build_final_report_markdown_from_sections(rt'.final_report_draft_sections)
    /\ files'.final_markdown = rt'.final_markdown_text
    /\ job'.final_report_ready
    /\ NewlyLogged("final_report_persisted")

\* C31: under gate-enforcement a failed content validation (english_required,
\* final_report_sections_not_met, final_report_length_not_met) returns
\* status=error and writes no report; with gate-enforcement off every call that
\* leaves the draft complete commits, even when the validation fails, after
\* emitting final_report_validation_skipped.
C31_ValidationBlocksOnlyUnderGates ==
    [][/\ (settings.enable_final_gates /\ ValidationFailedInCall)
              => /\ result'.status = "error"
                 /\ result'.reason = DraftValidation(rt').reason
                 /\ result'.reason \in {"english_required", "final_report_sections_not_met",
                                        "final_report_length_not_met"}
                 /\ NewEvents = <<Event("final_report_write_failed")>>
                 /\ NoReportWritten
       /\ (~settings.enable_final_gates /\ FinalWriteBeforeCommit
             /\ SectionsInDraft(rt') = SectionIds)
              => /\ ReportCommitted
                 /\ NewEvents = IF DraftValidation(rt').ok
                                THEN <<Event("final_report_persisted")>>
                                ELSE <<Event("final_report_validation_skipped"),
                                       Event("final_report_persisted")>>]_vars

\* Gates on and met, a complete report with Chinese text: refused, nothing written.
C31_Witness ==
    /\ settings.enable_final_gates
    /\ result.tool = "review_final_markdown_write"
    /\ result.status = "error"
    /\ result.reason = "english_required"
    /\ SectionsInDraft(rt) = SectionIds
    /\ final_gate_reason(rt) = None
    /\ files.final_markdown = NoFile
    /\ rt.final_markdown_text = <<>>

\* The paper-search gates of the final write are met in runtime r.
SearchGatesMet(r) ==
    /\ r.paper_search_usage.total_calls >= settings.min_paper_search_calls_for_final
    /\ r.paper_search_usage.distinct_queries >= settings.min_distinct_paper_queries_for_final

\* C32: under gate-enforcement, with a complete draft and the paper-search gates
\* met, review_final_markdown_write fails with annotation_count_not_met exactly
\* when the number of annotations is below min_annotations_for_final, for every
\* configured threshold, 0 included.
C32_AnnotationGateAtThreshold ==
    [][(/\ settings.enable_final_gates
        /\ FinalWriteBeforeCommit
        /\ SectionsInDraft(rt') = SectionIds
        /\ SearchGatesMet(rt'))
          => ((result'.status = "error" /\ result'.reason = "annotation_count_not_met")
                <=> Len(rt'.annotations) < settings.min_annotations_for_final)]_vars

\* C32 for the thresholds of 1 and more, where it holds.
C32_AnnotationGateAtPositiveThreshold ==
    [][(/\ settings.enable_final_gates
        /\ settings.min_annotations_for_final >= 1
        /\ FinalWriteBeforeCommit
        /\ SectionsInDraft(rt') = SectionIds
        /\ SearchGatesMet(rt'))
          => ((result'.status = "error" /\ result'.reason = "annotation_count_not_met")
                <=> Len(rt'.annotations) < settings.min_annotations_for_final)]_vars

\* ------------------------------------------------- the committed report

\* The stripped content of the i-th required section in the draft of the runtime.
CommittedContent(i) ==
    Strip(rt.final_report_draft_sections[required_final_report_section_order[i]])

RECURSIVE BlockStart(_)
\* Where the block of the i-th required section starts in a report made of one
\* block per section, each a heading line and the content, a blank line between.
BlockStart(i) ==
    IF i = 1 THEN 1 ELSE BlockStart(i - 1) + Len(CommittedContent(i - 1)) + 2

\* The text is one '## <Title>' block per required section, in canonical order.
OneBlockPerSectionInOrder(text) ==
    /\ Len(text) = BlockStart(Len(required_final_report_section_order))
                      + Len(CommittedContent(Len(required_final_report_section_order)))
    /\ \A i \in DOMAIN required_final_report_section_order :
          /\ text[BlockStart(i)]
                = HeadingLine(REQUIRED_FINAL_REPORT_SECTIONS[i].title)
          /\ CommittedContent(i) # <<>>
          /\ SubSeq(text, BlockStart(i) + 1, BlockStart(i) + Len(CommittedContent(i)))
                = CommittedContent(i)
          /\ i < Len(required_final_report_section_order)
                => IsBlank(text[BlockStart(i) + Len(CommittedContent(i)) + 1])

\* Some section content of the draft holds a heading line.
HeadingInDraft ==
    \E id \in SectionIds : \E i \in DOMAIN rt.final_report_draft_sections[id] :
        rt.final_report_draft_sections[id][i].h

\* C33: the committed final markdown consists of one '## <Title>' block per
\* required section in the canonical order, whatever the order of submission
\* and the number of calls; when no section content holds a heading line it has
\* exactly eleven headings.
C33_CommittedReportInCanonicalOrder ==
    rt.final_markdown_text # <<>> =>
        /\ files.final_markdown = rt.final_markdown_text
        /\ OneBlockPerSectionInOrder(files.final_markdown)
        /\ ~HeadingInDraft
              => Cardinality({i \in DOMAIN files.final_markdown : files.final_markdown[i].h})
                    = 11

\* A report committed by the fifth of five merging calls: the summary block
\* first, the key-issues block fourth.
C33_Witness ==
    /\ rt.final_markdown_text # <<>>
    /\ calls = 5
    /\ rt.final_report_draft_version = 5
    /\ ~HeadingInDraft
    /\ files.final_markdown[1] = HeadingLine("Summary")
    /\ files.final_markdown[BlockStart(4)] = HeadingLine("Key Issues")

\* ------------------------------------------------- the version of the draft

\* The arguments a carry content for some section: a legacy field, a section of
\* the markdown, or a non-empty section_content for a section that exists.
SuppliesSectionContent(a) ==
    \/ IncomingBase(a) # NoSections
    \/ /\ resolve_final_report_section_id(SectionKey(a)) # None
       /\ a.has_section_content
       /\ strip_leading_section_heading(resolve_final_report_section_id(SectionKey(a)),
                                        Strip(a.section_content)) # <<>>

\* What a call with the arguments a would do to the version, before any commit:
\* one more when it merges content into the draft, the same otherwise.
VersionFollowsMerge(a) ==
    \E plan \in {FinalWritePlan(record_tool(rt, FinalWriteTool), a)} :
        IF plan.kind = "rejected"
        THEN /\ plan.reason \in InputErrorReasons
             /\ plan.version = rt.final_report_draft_version
             /\ plan.draft = rt.final_report_draft_sections
        ELSE IF SuppliesSectionContent(a)
        THEN plan.version = rt.final_report_draft_version + 1
        ELSE /\ plan.version = rt.final_report_draft_version
             /\ plan.draft = rt.final_report_draft_sections

\* What a step does to the draft and its version.
DraftVersionStep ==
    /\ rt'.final_report_draft_version - rt.final_report_draft_version \in {0, 1}
    /\ rt'.final_report_draft_sections # rt.final_report_draft_sections
          => rt'.final_report_draft_version = rt.final_report_draft_version + 1
    /\ rt'.final_report_draft_version # rt.final_report_draft_version
          => IsCallOf(FinalWriteTool)
    /\ (IsCallOf(FinalWriteTool) /\ result'.reason \in InputErrorReasons)
          => /\ rt'.final_report_draft_sections = rt.final_report_draft_sections
             /\ rt'.final_report_draft_version = rt.final_report_draft_version

\* C34: draft_version increases by exactly one in each review_final_markdown_write
\* call that merges new section content into the draft and is unchanged by
\* every other call; the draft map changes only in calls that increase the
\* version; calls rejected with section_id_invalid, section_content_required or
\* section_payload_required leave the draft map and draft_version unchanged.
C34_DraftVersionCountsMerges ==
    /\ [](rt.final_markdown_text = <<>> => \A a \in FinalWriteInputs : VersionFollowsMerge(a))
    /\ [][DraftVersionStep]_vars

\* A draft at version 2 after three calls of the tool, the last one rejected.
C34_Witness ==
    /\ rt.final_report_draft_version = 2
    /\ rt.tool_counts[FinalWriteTool] = 3
    /\ result.tool = FinalWriteTool
    /\ result.reason \in InputErrorReasons

\* ------------------------------------------------- the list of annotations

AnnotateErrorReasons ==
    {"paper_search_calls_not_met", "page_not_found", "empty_span", "comment_required"}

\* The annotations of before are the first annotations of after, untouched.
EarlierAnnotationsKept ==
    /\ Len(rt'.annotations) >= Len(rt.annotations)
    /\ SubSeq(rt'.annotations, 1, Len(rt.annotations)) = rt.annotations

\* What a pdf_annotate call does to the list, to annotations.json and to the job.
AnnotateStep ==
    /\ result'.tool = "pdf_annotate"
    /\ result'.status \in {"ok", "error"}
    /\ result'.status = "ok"
          => /\ Len(rt'.annotations) = Len(rt.annotations) + 1
             /\ files'.annotations = rt'.annotations
    /\ result'.status = "error"
          => /\ result'.reason \in AnnotateErrorReasons
             /\ rt'.annotations = rt.annotations
             /\ files'.annotations = files.annotations
    /\ job'.annotation_count = Len(rt'.annotations)

\* C35: the annotation list is append-only: a successful pdf_annotate appends
\* exactly one annotation and never alters or removes earlier ones; a call that
\* returns an error leaves the list and annotations.json unchanged; after every
\* pdf_annotate call the job's annotation_count is the length of the list.
C35_AnnotationsAppendOnly ==
    [][EarlierAnnotationsKept /\ (IsCallOf("pdf_annotate") => AnnotateStep)]_vars

\* An annotation on file, and then a call refused for its empty comment.
C35_Witness ==
    /\ result.tool = "pdf_annotate"
    /\ result.reason = "comment_required"
    /\ Len(rt.annotations) = 1
    /\ files.annotations = rt.annotations
    /\ job.annotation_count = 1

\* ------------------------------------------------- reading lines of a page

MaxReadCalls == 3
MaxLineArg == 5

\* Two pages, of two and of three lines.
ReadPageIndex == [p \in {1, 2} |-> IF p = 1 THEN <<"l1", "l2">> ELSE <<"m1", "m2", "m3">>]

\* The line numbers asked for: below 1, inside the pages, above their lengths.
LineArgs == (0 - 2) .. MaxLineArg

InitReadLines ==
    /\ settings \in ToolSettingsChoices
    /\ ctl = [pc |-> "agent_run", attempt |-> 1, forced_choice |-> 0,
              budget |-> MaxReadCalls, suspended |-> <<>>]
    /\ rt = NewRuntime(ReadPageIndex)
    /\ job = ParsedJob(StartedJob(NewJob), FALSE)
    /\ files = ParsedFiles(NewFiles)
    /\ events = ParsedEvents(StartedEvents(<<Event("created")>>), FALSE)
    /\ result = NoResult
    /\ calls = 0

\* The agent reads any range of any page, existing or not.
read_lines_call ==
    /\ AgentTaskRunning
    /\ \E page \in {1, 2, 3}, start_line \in LineArgs, end_line \in LineArgs :
        ReadLinesCall(page, start_line, end_line)

SpecReadLines == InitReadLines /\ [][read_lines_call]_vars

ReadLinesReturned == result.tool = "pdf_read_lines" /\ result.status = "ok"

\* C36: for an existing page, pdf_read_lines returns a range clamped to the
\* page, 1 <= start_line <= end_line <= page_line_count, with exactly the lines
\* of that inclusive range, for every integer start_line and end_line given.
C36_ReadRangeClampedToPage ==
    ReadLinesReturned
       => /\ 1 <= result.start_line
          /\ result.start_line <= result.end_line
          /\ result.end_line <= Len(rt.page_index[result.page])
          /\ result.lines = SubSeq(rt.page_index[result.page], result.start_line, result.end_line)

\* ------------------------------------------------- what a completed job has

\* The job record reads completed only with its final report ready and on disk.
CompletedHasFinalReport ==
    job.status = "completed" => (job.final_report_ready /\ files.final_markdown # NoFile)

\* run_job is over and no call ever wrote final_report.md: the job reads failed.
EndsFailedWithoutCommit ==
    (ctl.pc = "done" /\ files.final_markdown = NoFile) => job.status = "failed"

\* The job becomes completed in the export of run_job_async ('completed') or in
\* the recovery of run_job ('completed_recovered'), the final markdown being there.
CompletesByExportOrRecovery ==
    (job.status # "completed" /\ job'.status = "completed")
       => /\ files.final_markdown # NoFile
          /\ ctl'.pc = "done"
          /\ \/ NewlyLogged("completed") /\ ~NewlyLogged("completed_recovered")
             \/ NewlyLogged("completed_recovered") /\ ~NewlyLogged("completed")

\* C37: in every reachable state a job record with status completed has
\* final_report_ready = true and a final-markdown file on disk; the job only
\* becomes completed through the export path or the recovery path, both with
\* the final markdown in place; if no agent run commits, the job ends failed.
C37_CompletedMeansFinalReport ==
    /\ [](CompletedHasFinalReport /\ EndsFailedWithoutCommit)
    /\ [][CompletesByExportOrRecovery]_vars

\* A job completed by the recovery path after its export failed.
C37_Witness ==
    /\ job.status = "completed"
    /\ job.metadata.post_exception_recovery
    /\ job.final_report_ready
    /\ files.final_markdown # NoFile
    /\ ctl.pc = "done"

\* ------------------------------------------------- what follows a run that raised

NoCommitInRuntime == rt.final_markdown_text = <<>>

\* A continuation attempt or the first forced run is launched.
LaunchesAfterRegularRun ==
    /\ ctl.pc = "agent_run"
    /\ \/ ctl'.pc = "agent_run" /\ ctl'.attempt # ctl.attempt
       \/ ctl'.pc = "forced_run"

\* The regular attempt returned without a commit: 'agent_run_incomplete' is what
\* the loop logs after consuming the result of a run that returned.
RegularRunReturnedWithoutCommit ==
    /\ NoCommitInRuntime
    /\ NewlyLogged("agent_run_incomplete")
    /\ job'.usage.tool = rt.tool_counts

\* The regular attempt raised before any commit: the controller leaves the loop
\* with the exception and nothing is logged or written by that step.
RegularRunRaisedBeforeCommit ==
    /\ ctl.pc = "agent_run"
    /\ NoCommitInRuntime
    /\ ctl'.pc = "exception"

\* What the steps of the attempt loop do around an exception.
AttemptLoopStep ==
    /\ LaunchesAfterRegularRun
          => /\ RegularRunReturnedWithoutCommit
             /\ ctl'.pc = "agent_run" => (ctl'.attempt = ctl.attempt + 1 /\ ctl.attempt < max_attempts)
             /\ ctl'.pc = "forced_run" => (ctl'.forced_choice = 1 /\ ctl.attempt >= max_attempts)
    /\ RegularRunRaisedBeforeCommit
          => /\ ctl'.attempt = ctl.attempt
             /\ events' = events
             /\ job' = job
    /\ (ctl.pc = "exception" /\ files.final_markdown = NoFile)
          => /\ ctl'.pc = "done"
             /\ job'.status = "failed"
             /\ ctl'.attempt = ctl.attempt
    /\ ctl.pc = "done" => ctl' = ctl
    /\ (ctl.pc = "forced_run" /\ NewlyLogged("agent_forced_final_write_error"))
          => /\ NoCommitInRuntime
             /\ IF ctl.forced_choice = 1
                THEN ctl'.pc = "forced_run" /\ ctl'.forced_choice = 2
                ELSE ctl'.pc = "exception"
    /\ (ctl.pc = "forced_run" /\ NoCommitInRuntime /\ ctl' # ctl /\ ctl'.pc # "crashed")
          => \/ NewlyLogged("agent_forced_final_write_error")
             \/ NewlyLogged("agent_forced_final_write_result")

\* C38: a continuation attempt and the forced final-write runs are started only
\* after a regular agent attempt returns normally without a commit; if a regular
\* attempt raises before any commit, no further attempt or forced run is
\* launched and the job ends failed, even when attempts remain; an exception in
\* a forced run before a commit is recorded and the next forced choice is tried.
C38_OnlyReturnedRunsAreResumed == [][AttemptLoopStep]_vars

\* The first of two attempts raised with nothing committed: the job failed after
\* one attempt, no run having been reported incomplete.
C38_Witness ==
    /\ ctl.pc = "done"
    /\ job.status = "failed"
    /\ max_attempts = 2
    /\ ctl.attempt = 1
    /\ ctl.forced_choice = 0
    /\ rt # NoRuntime
    /\ \A i \in DOMAIN events : events[i].event # "agent_run_incomplete"

\* ------------------------------------------------- a rejected draft is kept

CommitTimeReasons ==
    {"paper_search_calls_not_met", "paper_search_distinct_queries_not_met",
     "annotation_count_not_met", "markdown_required", "english_required",
     "final_report_sections_not_met", "final_report_length_not_met"}

\* A call with no section payload of any kind.
NoPayloadInput ==
    [markdown |-> <<>>, legacy |-> NoLegacy, section_id |-> None, section_title |-> None,
     has_section_content |-> FALSE, section_content |-> <<>>]

\* The call was rejected by a commit-time gate or by the content validation.
RejectedAtCommitTime ==
    /\ FinalWriteBeforeCommit
    /\ result'.status = "error"
    /\ result'.reason \in CommitTimeReasons

\* The runtime holds a complete draft and no final report.
CompleteDraftWaiting ==
    /\ rt.final_markdown_text = <<>>
    /\ SectionsInDraft(rt) = SectionIds

\* Nothing rejects the draft of the runtime any more: the gates as the tool
\* evaluates them, and the validation where it is enforced.
NothingRejectsDraft ==
    /\ final_gate_reason(rt) = None
    /\ settings.enable_final_gates => DraftValidation(rt).ok

\* What a call with no payload does with a complete draft that waits.
NoPayloadCallUsesDraft ==
    \E plan \in {FinalWritePlan(record_tool(rt, FinalWriteTool), NoPayloadInput)} :
        /\ plan.draft = rt.final_report_draft_sections
        /\ plan.version = rt.final_report_draft_version
        /\ IF NothingRejectsDraft
           THEN /\ plan.kind = "commit"
                /\ plan.markdown
                     = build_final_report_markdown_from_sections(rt.final_report_draft_sections)
           ELSE plan.kind = "gate_failed" /\ plan.reason \in CommitTimeReasons

\* A rejection at commit time leaves the complete merged draft in the runtime;
\* a commit that leaves the version alone commits the draft that was waiting.
DraftRetainedStep ==
    /\ RejectedAtCommitTime
          => /\ SectionsInDraft(rt') = SectionIds
             /\ rt'.final_report_draft_version >= 1
             /\ NoReportWritten
    /\ (CompleteDraftWaiting /\ FinalWriteBeforeCommit
          /\ rt'.final_report_draft_version = rt.final_report_draft_version)
          => /\ rt'.final_report_draft_sections = rt.final_report_draft_sections
             /\ rt'.final_markdown_text # <<>>
                   => /\ ReportCommitted
                      /\ files'.final_markdown
                           = build_final_report_markdown_from_sections(
                                 rt.final_report_draft_sections)

\* C39: when a complete draft is rejected by a commit-time gate or by content
\* validation, the merged draft is retained: a later review_final_markdown_write
\* call with no section payload, made once the gates are satisfied, commits
\* that same draft, and that call does not change draft_version.
C39_RejectedDraftIsRetained ==
    /\ [](CompleteDraftWaiting => NoPayloadCallUsesDraft)
    /\ [][DraftRetainedStep]_vars

\* A complete draft at version 1 that the annotation gate rejected, kept through
\* the pdf_annotate call that met the gate, with a call left to commit it.
C39_Witness ==
    /\ settings.enable_final_gates
    /\ CompleteDraftWaiting
    /\ rt.final_report_draft_version = 1
    /\ rt.tool_counts[FinalWriteTool] = 1
    /\ events[Len(events) - 1].event = "final_report_write_failed"
    /\ result.tool = "pdf_annotate"
    /\ result.status = "ok"
    /\ NothingRejectsDraft
    /\ NoPayloadInput \in GateWriteInputs
    /\ AgentTaskRunning

\* ------------------------------------------------- the PASA server's async jobs

MaxPasaJobs == 2
MaxCancels == 2

PasaJobIds == 1..MaxPasaJobs
CancelRequests == 1..MaxCancels

PasaTerminal == {"succeeded", "failed", "cancelled"}

\* PASA_ASYNC_MAX_WORKERS (at least 1) and PASA_ASYNC_MAX_QUEUE.
PasaConfigs == [max_workers : {1, 2}, max_queue : {1, 2}]

\* Fault variant: a future is cancelled in whatever state it is.
future_cancel_any(state) == [ok |-> TRUE, state |-> "CANCELLED"]

\* concurrent.futures.Future.cancel as pasa_job_cancel uses it: a pending future
\* becomes cancelled, a cancelled one stays so, a running or finished one refuses.
future_cancel(state) ==
    IF state \in {"PENDING", "CANCELLED"}
    THEN [ok |-> TRUE, state |-> "CANCELLED"]
    ELSE [ok |-> FALSE, state |-> state]

IdleCancel == [pc |-> "idle", id |-> 0, has_future |-> FALSE]

\* The server after load_models: no job, no future, an idle executor.  job is
\* _JOBS (the dict of a job and whether _JOBS still holds it), files is
\* _JOB_FUTURES, rt the state of each job's Future, ctl the threads: a submit
\* request and a work item per job, the executor's queue, the cancel requests;
\* events lists the jobs whose run_pasa_search was started, result the answers
\* to the cancel requests.
InitPasa ==
    /\ settings \in PasaConfigs
    /\ job = [id \in PasaJobIds |-> [status |-> "none", in_jobs |-> FALSE]]
    /\ files = [id \in PasaJobIds |-> FALSE]
    /\ rt = [id \in PasaJobIds |-> "none"]
    /\ ctl = [submit |-> [id \in PasaJobIds |-> "idle"],
              run |-> [id \in PasaJobIds |-> "none"],
              queue |-> <<>>,
              cancel |-> [c \in CancelRequests |-> IdleCancel]]
    /\ events = <<>>
    /\ result = [c \in CancelRequests |-> None]
    /\ calls = 0

\* _cleanup_jobs, run at the head of every job endpoint and of _submit_job: a
\* finished job whose TTL has passed leaves _JOBS and _JOB_FUTURES.
cleanup_jobs ==
    /\ \E id \in PasaJobIds :
        /\ job[id].in_jobs
        /\ job[id].status \in PasaTerminal
        /\ job' = [job EXCEPT ![id].in_jobs = FALSE]
        /\ files' = [files EXCEPT ![id] = FALSE]
    /\ UNCHANGED <<settings, ctl, rt, events, result, calls>>

\* _submit_job, first locked block: the queue-full test and the new queued job.
submit_job_inserts ==
    /\ \E id \in PasaJobIds :
        /\ ctl.submit[id] = "idle"
        /\ \A other \in PasaJobIds : other < id => ctl.submit[other] # "idle"
        /\ IF Cardinality({j \in PasaJobIds :
                              job[j].in_jobs /\ job[j].status \in {"queued", "running"}})
                 >= settings.max_queue
           THEN \* 'Async queue is full'
                /\ ctl' = [ctl EXCEPT !.submit[id] = "refused"]
                /\ job' = job
           ELSE /\ ctl' = [ctl EXCEPT !.submit[id] = "inserted"]
                /\ job' = [job EXCEPT ![id] = [status |-> "queued", in_jobs |-> TRUE]]
    /\ UNCHANGED <<settings, rt, files, events, result, calls>>

\* _submit_job, _ASYNC_EXECUTOR.submit: the work item is queued, its future pending.
submit_job_executor ==
    /\ \E id \in PasaJobIds :
        /\ ctl.submit[id] = "inserted"
        /\ rt' = [rt EXCEPT ![id] = "PENDING"]
        /\ ctl' = [ctl EXCEPT !.submit[id] = "submitted",
                              !.run[id] = "waiting",
                              !.queue = Append(@, id)]
    /\ UNCHANGED <<settings, job, files, events, result, calls>>

\* _submit_job, second locked block: the future is registered and the job id
\* returned to the client.
submit_job_registers ==
    /\ \E id \in PasaJobIds :
        /\ ctl.submit[id] = "submitted"
        /\ files' = [files EXCEPT ![id] = TRUE]
        /\ ctl' = [ctl EXCEPT !.submit[id] = "returned"]
    /\ UNCHANGED <<settings, job, rt, events, result, calls>>

\* A free worker of the executor takes the oldest work item: a cancelled one is
\* dropped, any other starts running.
worker_start ==
    /\ ctl.queue # <<>>
    /\ Cardinality({j \in PasaJobIds : ctl.run[j] \in {"picked", "searching", "recorded"}})
          < settings.max_workers
    /\ \E id \in {Head(ctl.queue)} :
        IF rt[id] = "CANCELLED"
        THEN /\ ctl' = [ctl EXCEPT !.queue = Tail(@), !.run[id] = "dropped"]
             /\ rt' = rt
        ELSE /\ ctl' = [ctl EXCEPT !.queue = Tail(@), !.run[id] = "picked"]
             /\ rt' = [rt EXCEPT ![id] = "RUNNING"]
    /\ UNCHANGED <<settings, job, files, events, result, calls>>

\* _run_async_job, first locked block, and the call of run_pasa_search.
run_async_job_starts ==
    /\ \E id \in PasaJobIds :
        /\ ctl.run[id] = "picked"
        /\ IF ~job[id].in_jobs
           THEN /\ ctl' = [ctl EXCEPT !.run[id] = "recorded"]
                /\ UNCHANGED <<job, events>>
           ELSE /\ job' = [job EXCEPT ![id].status = "running"]
                /\ events' = Append(events, id)
                /\ ctl' = [ctl EXCEPT !.run[id] = "searching"]
    /\ UNCHANGED <<settings, rt, files, result, calls>>

\* _run_async_job, run_pasa_search returned or raised: the closing locked block.
run_async_job_finishes ==
    /\ \E id \in PasaJobIds, raised \in BOOLEAN :
        /\ ctl.run[id] = "searching"
        /\ job' = IF job[id].in_jobs
                  THEN [job EXCEPT ![id].status = IF raised THEN "failed" ELSE "succeeded"]
                  ELSE job
        /\ ctl' = [ctl EXCEPT !.run[id] = "recorded"]
    /\ UNCHANGED <<settings, rt, files, events, result, calls>>

\* _run_async_job returned: the executor finishes the future and frees the worker.
worker_done ==
    /\ \E id \in PasaJobIds :
        /\ ctl.run[id] = "recorded"
        /\ rt' = [rt EXCEPT ![id] = "FINISHED"]
        /\ ctl' = [ctl EXCEPT !.run[id] = "returned"]
    /\ UNCHANGED <<settings, job, files, events, result, calls>>

\* pasa_job_cancel, the locked read of the job and its future.  A client asks
\* for a job id it was given: one whose _submit_job has returned.
pasa_job_cancel_reads ==
    /\ calls < MaxCancels
    /\ \E c \in CancelRequests, id \in PasaJobIds :
        /\ ctl.cancel[c].pc = "idle"
        /\ \A other \in CancelRequests : other < c => ctl.cancel[other].pc # "idle"
        /\ ctl.submit[id] = "returned"
        /\ IF ~job[id].in_jobs
           THEN /\ ctl' = [ctl EXCEPT !.cancel[c] = [pc |-> "done", id |-> id,
                                                    has_future |-> FALSE]]
                /\ result' = [result EXCEPT ![c] = "404_not_found"]
           ELSE /\ ctl' = [ctl EXCEPT !.cancel[c] = [pc |-> "read", id |-> id,
                                                    has_future |-> files[id]]]
                /\ result' = result
    /\ calls' = calls + 1
    /\ UNCHANGED <<settings, job, rt, files, events>>

\* pasa_job_cancel, the test of the status in the job dict it holds.
pasa_job_cancel_checks ==
    /\ \E c \in CancelRequests :
        /\ ctl.cancel[c].pc = "read"
        /\ IF job[ctl.cancel[c].id].status \in PasaTerminal
           THEN /\ ctl' = [ctl EXCEPT !.cancel[c].pc = "done"]
                /\ result' = [result EXCEPT ![c] = "200_already_finished"]
           ELSE /\ ctl' = [ctl EXCEPT !.cancel[c].pc = "checked"]
                /\ result' = result
    /\ UNCHANGED <<settings, job, rt, files, events, calls>>

\* pasa_job_cancel, 'if future and future.cancel()'.
pasa_job_cancel_future ==
    /\ \E c \in CancelRequests :
        /\ ctl.cancel[c].pc = "checked"
        /\ \E outcome \in {future_cancel(rt[ctl.cancel[c].id])} :
            IF ctl.cancel[c].has_future /\ outcome.ok
            THEN /\ rt' = [rt EXCEPT ![ctl.cancel[c].id] = outcome.state]
                 /\ ctl' = [ctl EXCEPT !.cancel[c].pc = "cancelled"]
                 /\ result' = result
            ELSE /\ rt' = rt
                 /\ ctl' = [ctl EXCEPT !.cancel[c].pc = "done"]
                 /\ result' = [result EXCEPT ![c] = "409_already_running"]
    /\ UNCHANGED <<settings, job, files, events, calls>>

\* pasa_job_cancel, the locked write of status cancelled and the answer;
\* _serialize_job(None) raises when _JOBS no longer holds the job.
pasa_job_cancel_writes ==
    /\ \E c \in CancelRequests :
        /\ ctl.cancel[c].pc = "cancelled"
        /\ IF job[ctl.cancel[c].id].in_jobs
           THEN /\ job' = [job EXCEPT ![ctl.cancel[c].id].status = "cancelled"]
                /\ result' = [result EXCEPT ![c] = "200_cancelled"]
           ELSE /\ job' = job
                /\ result' = [result EXCEPT ![c] = "500_error"]
        /\ ctl' = [ctl EXCEPT !.cancel[c].pc = "done"]
    /\ UNCHANGED <<settings, rt, files, events, calls>>

NextPasa ==
    \/ cleanup_jobs
    \/ submit_job_inserts
    \/ submit_job_executor
    \/ submit_job_registers
    \/ worker_start
    \/ run_async_job_starts
    \/ run_async_job_finishes
    \/ worker_done
    \/ pasa_job_cancel_reads
    \/ pasa_job_cancel_checks
    \/ pasa_job_cancel_future
    \/ pasa_job_cancel_writes

SpecPasa == InitPasa /\ [][NextPasa]_vars

\* The job's search was started at some point.
HasRun(id) == \E i \in DOMAIN events : events[i] = id

\* The worker has taken the job's work item.
HasStarted(id) == rt[id] \in {"RUNNING", "FINISHED"}

\* A cancelled job never ran and never will: its future is cancelled and no
\* worker holds it; a job reads running only while a worker runs its search.
CancelledNeverRuns ==
    \A id \in PasaJobIds :
        /\ (rt[id] = "CANCELLED" \/ job[id].status = "cancelled")
              => /\ rt[id] = "CANCELLED"
                 /\ ~HasRun(id)
                 /\ ctl.run[id] \in {"waiting", "dropped"}
        /\ job[id].status = "running" => (HasRun(id) /\ ctl.run[id] = "searching")

\* The answers of finished cancel requests fit what became of the job.
CancelAnswersFit ==
    \A c \in CancelRequests :
        /\ result[c] = "200_cancelled"
              => (job[ctl.cancel[c].id].status = "cancelled" /\ ~HasRun(ctl.cancel[c].id))
        /\ result[c] = "409_already_running" => HasStarted(ctl.cancel[c].id)
        /\ result[c] = "200_already_finished" => job[ctl.cancel[c].id].status \in PasaTerminal
        /\ ctl.cancel[c].pc = "cancelled" => rt[ctl.cancel[c].id] = "CANCELLED"

\* future.cancel() of a cancel request decides by whether the job has started;
\* finished jobs keep their status; nothing is run after its cancellation.
CancelStep ==
    /\ \A c \in CancelRequests :
          (ctl.cancel[c].pc = "checked" /\ ctl'.cancel[c].pc # "checked")
             => IF HasStarted(ctl.cancel[c].id)
                THEN /\ result'[c] = "409_already_running"
                     /\ job' = job
                     /\ rt' = rt
                ELSE /\ ctl'.cancel[c].pc = "cancelled"
                     /\ rt'[ctl.cancel[c].id] = "CANCELLED"
    /\ \A c \in CancelRequests :
          (ctl.cancel[c].pc = "cancelled" /\ ctl'.cancel[c].pc = "done"
             /\ job[ctl.cancel[c].id].in_jobs)
             => (job'[ctl.cancel[c].id].status = "cancelled" /\ result'[c] = "200_cancelled")
    /\ \A id \in PasaJobIds :
          /\ job[id].status \in PasaTerminal => job'[id].status = job[id].status
          /\ rt[id] = "CANCELLED"
                => /\ rt'[id] = "CANCELLED"
                   /\ events' # events => events'[Len(events')] # id

\* C40: DELETE /pasa/jobs/<job_id> cancels an async job exactly when it has not
\* started: under any interleaving of submit, worker start and cancel requests,
\* a job that has not started running is moved to cancelled and never runs
\* afterwards, a running job is refused, and a job already succeeded, failed or
\* cancelled keeps its status.
C40_CancelExactlyWhenNotStarted ==
    /\ [](CancelledNeverRuns /\ CancelAnswersFit)
    /\ [][CancelStep]_vars

\* One job cancelled while it waited behind another, whose cancel was refused.
C40_Witness ==
    \E c, d \in CancelRequests :
        /\ result[c] = "200_cancelled"
        /\ job[ctl.cancel[c].id].status = "cancelled"
        /\ ctl.run[ctl.cancel[c].id] = "dropped"
        /\ result[d] = "409_already_running"
        /\ HasRun(ctl.cancel[d].id)

====
